---- MODULE Spec2Model ----
(***************************************************************************)
(* QuorumWriter of internal/blob: one writer, one persistent worker per    *)
(* replica, a caller issuing serialized WriteAndSync calls and callers of  *)
(* Close.  Every action is one critical section (or one blocking call) of  *)
(* the Go code; a sync.Cond wait is the guard of the step that follows it. *)
(***************************************************************************)
EXTENDS Integers, Sequences, FiniteSets, TLC

\* ------------------------------------------------------------------ bounds
\* The largest replica set a writer is constructed with (N ranges over 1..MaxReplicas).
MaxReplicas == 3
\* The number of WriteAndSync calls the caller makes.
MaxWrites == 2
\* The number of WriteAndSync calls the caller makes in the specifications
\* that check what Close does to a blocked call.
MaxWritesClosing == 1
\* The longest payload, in bytes (payload lengths range over 0..MaxLen).
MaxLen == 1
\* The number of Close calls made after the effective one.
MaxExtraCloses == 1
\* The largest pool size a DataClientPool is constructed with (1..MaxPoolSize).
MaxPoolSize == 2
\* The number of goroutines that call Acquire, Release and ReleaseWithError.
MaxCallers == 3
\* The number of server addresses the callers acquire connections for.
MaxAddrs == 2
\* The number of DataClient instances the pool creates in all.
MaxConns == 3
\* The longest payload handed to WriteRequest and WriteResponse (0..MaxData bytes).
MaxData == 2
\* The width, in bits, to which the uint64 and int64 of a DataClient request
\* are scaled: lengths range over 0..2^WordBits - 1.
WordBits == 3
\* The longest buffer a DataClient call is handed (0..MaxBuf bytes).
MaxBuf == 2
\* The number of connections net.Dial establishes for one DataClient.
MaxDials == 2
\* The largest replica count for which the outcome conditions of
\* waitForQuorum are compared.
MaxOutcomeN == 9

\* ------------------------------------------------------------- vocabulary
\* The nil error.
Nil == "nil"
\* ErrClosed, the error of a closed writer.
ErrClosed == "ErrClosed"
\* The non-nil errors a replica's AppendSync returns.
AppendErrors == {"ErrIOError", "ErrSealed"}
\* len(data) of the payloads WriteAndSync is called with.
PayloadLens == 0..MaxLen
\* No WriteAndSync call has returned yet.
NoRet == "none"
\* The zero quorumRequest (no request in hand).
NoReq == [offset |-> 0, len |-> 0, round |-> 0]

VARIABLES
    n,              \* len(replicas), fixed at construction
    quorum,         \* QuorumWriter.quorum
    offset,         \* QuorumWriter.offset (the cursor)
    currentOffset,  \* QuorumWriter.currentOffset (the current epoch)
    successCount,   \* QuorumWriter.successCount
    failureCount,   \* QuorumWriter.failureCount
    lastError,      \* QuorumWriter.lastError
    closed,         \* QuorumWriter.closed
    queue,          \* quorumReplicaWorker.queue, per worker
    wclosed,        \* quorumReplicaWorker.closed, per worker
    clientClosed,   \* whether the worker's dedicated client has been closed
    wpc,            \* where each worker's run goroutine stands
    cur,            \* the request a worker holds between dequeue and reportResult
    wsPc,           \* where the (single) WriteAndSync caller stands
    wsIdx,          \* index of the next worker of the fan-out loop
    wsReq,          \* the request of the call in flight
    numCalls,       \* number of WriteAndSync calls made so far
    lastRet,        \* the value the latest WriteAndSync call returned (NoRet before any)
    accepted,       \* the requests prepareWrite accepted, in call order
    clPc,           \* where the effective Close call stands
    clIdx,          \* index of the next worker of Close's loops
    extraCloses,    \* number of Close calls that found the writer closed
    submitted,      \* per worker: the requests enqueue was called with, in order
    issued,         \* per worker: the requests AppendSync was called with, in order
    okBy,           \* workers that reported success for the request of the current call
    failBy,         \* workers that reported failure for the request of the current call
    waitingAtClose, \* whether a call was blocked in waitForQuorum when Close marked the writer
    roundErr        \* the error of the latest failure reported for the request of the current round

VARIABLES
    sizeOpts,       \* the sizes of the WithPoolSize options the pool was built with, in order
    poolSize,       \* DataClientPool.poolSize
    pclosed,        \* DataClientPool.closed
    pools,          \* the addresses that have an entry in DataClientPool.pools
    clients,        \* serverPool.clients per address: the idle stack, top last
    count,          \* serverPool.count per address
    spClosed,       \* serverPool.closed per address
    waiters,        \* per address: the callers blocked in sp.cond.Wait
    cpc,            \* where each pool caller stands
    caddr,          \* the address of the serverPool a caller is operating on
    cconn,          \* the DataClient a caller holds (NoConn: none)
    cret,           \* what the caller's latest Acquire returned: nil, a reused or a created client
    nextId,         \* the number of DataClient instances created so far
    connAddr,       \* DataClient.addr per instance
    connClosed,     \* per instance: DataClient.Close has been called on it
    pcl,            \* where the effective Close call of the pool stands
    toClose,        \* the addresses Close's loop has still to visit
    pExtraCloses,   \* number of Close calls that found the pool closed
    blockedAtClose, \* callers whose latest call is an Acquire that was blocked in Wait when Close marked the pool closed
    released,       \* per address: the idle clients in the order of their release
    refused         \* an Acquire called after Close had returned has been refused

VARIABLES
    conn,           \* DataClient.conn: the connection in use (NoConn: nil)
    r,              \* DataClient.r: the connection the buffered reader reads from (NoConn: nil)
    dialed,         \* the number of connections net.Dial has established for the client
    open,           \* the connections established and not closed
    call,           \* the latest request of the client: its arguments, what the server sent, what it returned
    closeErr,       \* what the latest DataClient.Close returned since that request ("none": no Close since)
    hdrIn,          \* the header handed to Encode, WriteRequest or WriteResponse
    dataIn,         \* the payload handed to WriteRequest or WriteResponse
    bufIn,          \* the bytes handed to DecodeRequestHeader or DecodeResponseHeader
    wire,           \* the bytes the latest Encode, WriteRequest or WriteResponse produced
    decoded         \* what the latest decode returned: a header and an error

writerVars == <<offset, currentOffset, successCount, failureCount, lastError>>
workerVars == <<queue, wclosed, clientClosed, wpc, cur>>
callerVars == <<wsPc, wsIdx, wsReq, numCalls, lastRet, accepted>>
closerVars == <<clPc, clIdx, extraCloses>>
ghostVars == <<submitted, issued, okBy, failBy, waitingAtClose, roundErr>>
quorumVars == <<n, quorum, closed, writerVars, workerVars, callerVars, closerVars, ghostVars>>
serverPoolVars == <<clients, count, spClosed, waiters>>
poolCallerVars == <<cpc, caddr, cconn, cret>>
connVars == <<nextId, connAddr, connClosed>>
poolCloserVars == <<pcl, toClose, pExtraCloses>>
poolVars == <<sizeOpts, poolSize, pclosed, pools, serverPoolVars, poolCallerVars, connVars,
              poolCloserVars, blockedAtClose, released, refused>>
dataVars == <<conn, r, dialed, open, call, closeErr>>
codecVars == <<hdrIn, dataIn, bufIn, wire, decoded>>
ioVars == <<dataVars, codecVars>>
vars == <<quorumVars, poolVars, ioVars>>

Workers == 1..n

\* The number of the round in progress or last concluded: a round is an accepted
\* WriteAndSync call, and every request carries the number of its round.
CurrentRound == Len(accepted)

\* quorum := (len(replicas) / 2) + 1
MajorityQuorum(N) == (N \div 2) + 1

\* newQuorumWriterWithFactory over N replicas: the state once every worker
\* goroutine is started.
NewQuorumWriterWithFactory(N) ==
    /\ n = N
    /\ quorum = MajorityQuorum(n)
    /\ offset = 0
    /\ currentOffset = 0
    /\ successCount = 0
    /\ failureCount = 0
    /\ lastError = Nil
    /\ closed = FALSE
    /\ queue = [i \in 1..n |-> <<>>]
    /\ wclosed = [i \in 1..n |-> FALSE]
    /\ clientClosed = [i \in 1..n |-> FALSE]
    /\ wpc = [i \in 1..n |-> "dequeue"]
    /\ cur = [i \in 1..n |-> NoReq]
    /\ wsPc = "idle"
    /\ wsIdx = 1
    /\ wsReq = NoReq
    /\ numCalls = 0
    /\ lastRet = NoRet
    /\ accepted = <<>>
    /\ clPc = "idle"
    /\ clIdx = 1
    /\ extraCloses = 0
    /\ submitted = [i \in 1..n |-> <<>>]
    /\ issued = [i \in 1..n |-> <<>>]
    /\ okBy = {}
    /\ failBy = {}
    /\ waitingAtClose = FALSE
    /\ roundErr = Nil

\* Callers of the pool, server addresses, DataClient instances.
PoolCallers == 1..MaxCallers
Addrs == 1..MaxAddrs
ConnIds == 1..MaxConns
\* The nil *DataClient.
NoConn == 0
\* No address (the addr of an instance not created yet, of a caller not in a call).
NoAddr == 0

\* defaultPoolSize, the connections per server of a pool built without a size.
defaultPoolSize == 8

\* Mutant of WithPoolSize: a size of zero is taken.
WithPoolSize_TakesZero(size, p) ==
    IF size >= 0 THEN size ELSE p

\* WithPoolSize(size) applied to a pool whose poolSize is p: the poolSize afterwards.
WithPoolSize(size, p) ==
    IF size > 0 THEN size ELSE p

\* The loop over opts of NewDataClientPool: the poolSize after the options
\* opts[k..] were applied in order to a pool whose poolSize is p.
RECURSIVE ApplyOptions(_, _, _)
ApplyOptions(opts, k, p) ==
    IF k > Len(opts) THEN p
    ELSE ApplyOptions(opts, k + 1, WithPoolSize(opts[k], p))

\* The option lists a pool is built with: none, or WithPoolSize of one size,
\* negative, zero or positive.
OptionLists == {<<>>} \cup {<<size>> : size \in -1..MaxPoolSize}

\* NewDataClientPool(opts...), every option a WithPoolSize: an open pool with no
\* serverPool and no client, and callers that have not called anything yet.
NewDataClientPool(opts) ==
    /\ sizeOpts = opts
    /\ poolSize = ApplyOptions(opts, 1, defaultPoolSize)
    /\ pclosed = FALSE
    /\ pools = {}
    /\ clients = [a \in Addrs |-> <<>>]
    /\ count = [a \in Addrs |-> 0]
    /\ spClosed = [a \in Addrs |-> FALSE]
    /\ waiters = [a \in Addrs |-> {}]
    /\ cpc = [c \in PoolCallers |-> "idle"]
    /\ caddr = [c \in PoolCallers |-> NoAddr]
    /\ cconn = [c \in PoolCallers |-> NoConn]
    /\ cret = [c \in PoolCallers |-> NoRet]
    /\ nextId = 0
    /\ connAddr = [id \in ConnIds |-> NoAddr]
    /\ connClosed = [id \in ConnIds |-> FALSE]
    /\ pcl = "idle"
    /\ toClose = {}
    /\ pExtraCloses = 0
    /\ blockedAtClose = {}
    /\ released = [a \in Addrs |-> <<>>]
    /\ refused = FALSE

\* ------------------------------------------------------------- wire codec
\* A byte.
Bytes == 0..255
\* ProtocolMagic, the byte that starts every request and response.
ProtocolMagic == 186
\* ObjectIDSize, RequestHeaderSize, ResponseHeaderSize in bytes.
ObjectIDSize == 16
RequestHeaderSize == 34
ResponseHeaderSize == 10
\* The operation codes.
OpAppend == 1
OpAppendSync == 2
OpRead == 3
\* The status codes.
StatusOK == 0
StatusNotFound == 1
StatusAlreadyExists == 2
StatusSealed == 3
StatusIOError == 4
StatusInvalidOp == 5
StatusBadRequest == 6
\* The errors of the protocol.
ErrNotFound == "ErrNotFound"
ErrAlreadyExists == "ErrAlreadyExists"
ErrSealed == "ErrSealed"
ErrIOError == "ErrIOError"
ErrInvalidOp == "ErrInvalidOp"
ErrBadRequest == "ErrBadRequest"

\* Mutant of StatusError: StatusInvalidOp is answered with the error of StatusBadRequest.
StatusError_Shared(s) ==
    CASE s = StatusOK -> Nil
      [] s = StatusNotFound -> ErrNotFound
      [] s = StatusAlreadyExists -> ErrAlreadyExists
      [] s = StatusSealed -> ErrSealed
      [] s = StatusIOError -> ErrIOError
      [] s = StatusInvalidOp -> ErrBadRequest
      [] s = StatusBadRequest -> ErrBadRequest
      [] OTHER -> "unknown status: " \o ToString(s)

\* Mutant of StatusError: every non-OK status is answered like success.
StatusError_Ignored(s) ==
    Nil

\* StatusCode.Error: nil for StatusOK, the named error of a status of the
\* vocabulary, a new error that names the byte otherwise.
StatusError(s) ==
    CASE s = StatusOK -> Nil
      [] s = StatusNotFound -> ErrNotFound
      [] s = StatusAlreadyExists -> ErrAlreadyExists
      [] s = StatusSealed -> ErrSealed
      [] s = StatusIOError -> ErrIOError
      [] s = StatusInvalidOp -> ErrInvalidOp
      [] s = StatusBadRequest -> ErrBadRequest
      [] OTHER -> "unknown status: " \o ToString(s)

\* A uint64 is written as its four 16-bit limbs, most significant first (the
\* integers of the model checker have 32 bits): <<0, 0, 0, 1000>> is 1000.
Limbs == 0..65535
IsUint64(v) == Len(v) = 4 /\ \A k \in 1..4 : v[k] \in Limbs
\* uint64(k) of a length k below 65536.
Uint64Of(k) == <<0, 0, 0, k>>

\* Mutant of PutUint64: the least significant byte first.
PutUint64_LittleEndian(v) ==
    [i \in 1..8 |-> IF i % 2 = 1 THEN v[4 - (i \div 2)] % 256
                                 ELSE v[5 - (i \div 2)] \div 256]

\* binary.BigEndian.PutUint64: the eight bytes of v, most significant first.
PutUint64(v) ==
    [i \in 1..8 |-> IF i % 2 = 1 THEN v[(i + 1) \div 2] \div 256
                                 ELSE v[i \div 2] % 256]

\* binary.BigEndian.Uint64: the value of eight bytes, most significant first.
Uint64(b) ==
    [k \in 1..4 |-> b[2 * k - 1] * 256 + b[2 * k]]

\* The zero RequestHeader and the zero ResponseHeader.
NoObjectID == [i \in 1..ObjectIDSize |-> 0]
ZeroRequestHeader ==
    [OpCode |-> 0, ObjectID |-> NoObjectID, Offset |-> Uint64Of(0), Length |-> Uint64Of(0)]
ZeroResponseHeader ==
    [Status |-> 0, Length |-> Uint64Of(0)]

\* RequestHeader.Encode: the first RequestHeaderSize bytes of buf afterwards.
RequestHeaderEncode(h) ==
    <<ProtocolMagic, h.OpCode>> \o h.ObjectID \o PutUint64(h.Offset) \o PutUint64(h.Length)

\* Mutant of DecodeRequestHeader: the magic byte is not looked at.
DecodeRequestHeader_AnyMagic(buf) ==
    IF Len(buf) < RequestHeaderSize
    THEN [hdr |-> ZeroRequestHeader, err |-> "buffer too small"]
    ELSE [hdr |-> [OpCode |-> buf[2],
                   ObjectID |-> SubSeq(buf, 3, 18),
                   Offset |-> Uint64(SubSeq(buf, 19, 26)),
                   Length |-> Uint64(SubSeq(buf, 27, 34))],
          err |-> Nil]

\* DecodeRequestHeader: the header and the error it returns.
DecodeRequestHeader(buf) ==
    IF Len(buf) < RequestHeaderSize
    THEN [hdr |-> ZeroRequestHeader, err |-> "buffer too small"]
    ELSE IF buf[1] # ProtocolMagic
    THEN [hdr |-> ZeroRequestHeader, err |-> "invalid magic"]
    ELSE [hdr |-> [OpCode |-> buf[2],
                   ObjectID |-> SubSeq(buf, 3, 18),
                   Offset |-> Uint64(SubSeq(buf, 19, 26)),
                   Length |-> Uint64(SubSeq(buf, 27, 34))],
          err |-> Nil]

\* ResponseHeader.Encode: the first ResponseHeaderSize bytes of buf afterwards.
ResponseHeaderEncode(h) ==
    <<ProtocolMagic, h.Status>> \o PutUint64(h.Length)

\* DecodeResponseHeader: the header and the error it returns.
DecodeResponseHeader(buf) ==
    IF Len(buf) < ResponseHeaderSize
    THEN [hdr |-> ZeroResponseHeader, err |-> "buffer too small"]
    ELSE IF buf[1] # ProtocolMagic
    THEN [hdr |-> ZeroResponseHeader, err |-> "invalid magic"]
    ELSE [hdr |-> [Status |-> buf[2], Length |-> Uint64(SubSeq(buf, 3, 10))],
          err |-> Nil]

\* WriteRequest into a writer whose Write fails at failAt ("none": never): the
\* bytes the writer took and the error returned.
WriteRequest(h, data, failAt) ==
    IF failAt = "header"
    THEN [by |-> "WriteRequest", bytes |-> <<>>, err |-> "writing request header"]
    ELSE IF Len(data) > 0 /\ failAt = "data"
    THEN [by |-> "WriteRequest", bytes |-> RequestHeaderEncode(h), err |-> "writing request data"]
    ELSE [by |-> "WriteRequest", bytes |-> RequestHeaderEncode(h) \o data, err |-> Nil]

\* Mutant of WriteResponse: the header announces one byte more than is written.
WriteResponse_LongerLength(status, data, failAt) ==
    IF failAt = "header"
    THEN [by |-> "WriteResponse", bytes |-> <<>>, err |-> "writing response header"]
    ELSE IF Len(data) > 0 /\ failAt = "data"
    THEN [by |-> "WriteResponse",
          bytes |-> ResponseHeaderEncode([Status |-> status, Length |-> Uint64Of(Len(data) + 1)]),
          err |-> "writing response data"]
    ELSE [by |-> "WriteResponse",
          bytes |-> ResponseHeaderEncode([Status |-> status, Length |-> Uint64Of(Len(data) + 1)]) \o data,
          err |-> Nil]

\* WriteResponse into a writer whose Write fails at failAt: the header it
\* builds carries uint64(len(data)).
WriteResponse(status, data, failAt) ==
    IF failAt = "header"
    THEN [by |-> "WriteResponse", bytes |-> <<>>, err |-> "writing response header"]
    ELSE IF Len(data) > 0 /\ failAt = "data"
    THEN [by |-> "WriteResponse",
          bytes |-> ResponseHeaderEncode([Status |-> status, Length |-> Uint64Of(Len(data))]),
          err |-> "writing response data"]
    ELSE [by |-> "WriteResponse",
          bytes |-> ResponseHeaderEncode([Status |-> status, Length |-> Uint64Of(Len(data))]) \o data,
          err |-> Nil]

\* The headers, payloads and buffers the codec is applied to.
OpCodes == {OpAppend, OpAppendSync, OpRead, 0, 255}
StatusCodes == {StatusOK, StatusNotFound, StatusAlreadyExists, StatusSealed, StatusIOError,
                StatusInvalidOp, StatusBadRequest, 7, 255}
ObjectIDs == {NoObjectID, [i \in 1..ObjectIDSize |-> 255], [i \in 1..ObjectIDSize |-> 16 * i - 1]}
Offsets == {Uint64Of(0), Uint64Of(1000), <<0, 0, 1, 0>>, <<65535, 65535, 65535, 65535>>}
Lengths == {Uint64Of(k) : k \in 0..MaxData} \cup {<<258, 772, 1286, 1800>>, <<65535, 65535, 65535, 65535>>}
RequestHeaders == [OpCode : OpCodes, ObjectID : ObjectIDs, Offset : Offsets, Length : Lengths]
ResponseHeaders == [Status : StatusCodes, Length : Lengths]
Payloads == {[i \in 1..k |-> 103 + i] : k \in 0..MaxData}
IsRequestHeader(h) == "OpCode" \in DOMAIN h
IsResponseHeader(h) == "Status" \in DOMAIN h
\* First bytes that are not the magic.
BadMagics == {0, 185, 187, 255}
\* The buffers a decoder of headers of the given size is handed after w was
\* produced: w, prefixes of w, w behind another first byte, w and more.
BuffersFrom(w, size) ==
    LET cuts == {SubSeq(w, 1, k) : k \in {0, 1, size - 1, size} \cap 0..Len(w)}
        whole == cuts \cup {w, w \o <<ProtocolMagic>>, [i \in 1..size |-> 0]}
    IN  whole
        \cup {[i \in 1..Len(b) |-> IF i = 1 THEN x ELSE b[i]] : b \in whole, x \in BadMagics \cup {ProtocolMagic}}

\* Nothing encoded, nothing decoded yet.
NoWire == [by |-> "none", bytes |-> <<>>, err |-> Nil]
NoDecode == [of |-> "none", hdr |-> ZeroRequestHeader, err |-> Nil]

\* The codec before it is applied to the header h and the payload d.
CodecInputs(h, d) ==
    /\ hdrIn = h
    /\ dataIn = d
    /\ bufIn = <<>>
    /\ wire = NoWire
    /\ decoded = NoDecode

\* h.Encode(buf[:]) of a request header.
ApplyRequestHeaderEncode ==
    /\ IsRequestHeader(hdrIn)
    /\ wire' = [by |-> "Encode", bytes |-> RequestHeaderEncode(hdrIn), err |-> Nil]
    /\ UNCHANGED <<quorumVars, poolVars, dataVars, hdrIn, dataIn, bufIn, decoded>>

\* h.Encode(buf[:]) of a response header.
ApplyResponseHeaderEncode ==
    /\ IsResponseHeader(hdrIn)
    /\ wire' = [by |-> "Encode", bytes |-> ResponseHeaderEncode(hdrIn), err |-> Nil]
    /\ UNCHANGED <<quorumVars, poolVars, dataVars, hdrIn, dataIn, bufIn, decoded>>

\* DecodeRequestHeader(buf).
ApplyDecodeRequestHeader ==
    /\ IsRequestHeader(hdrIn)
    /\ \E b \in BuffersFrom(wire.bytes, RequestHeaderSize) :
           /\ bufIn' = b
           /\ decoded' = [of |-> "request", hdr |-> DecodeRequestHeader(b).hdr,
                          err |-> DecodeRequestHeader(b).err]
    /\ UNCHANGED <<quorumVars, poolVars, dataVars, hdrIn, dataIn, wire>>

\* DecodeResponseHeader(buf).
ApplyDecodeResponseHeader ==
    /\ IsResponseHeader(hdrIn)
    /\ \E b \in BuffersFrom(wire.bytes, ResponseHeaderSize) :
           /\ bufIn' = b
           /\ decoded' = [of |-> "response", hdr |-> DecodeResponseHeader(b).hdr,
                          err |-> DecodeResponseHeader(b).err]
    /\ UNCHANGED <<quorumVars, poolVars, dataVars, hdrIn, dataIn, wire>>

\* WriteRequest(w, h, data).
ApplyWriteRequest ==
    /\ IsRequestHeader(hdrIn)
    /\ \E failAt \in {"none", "header", "data"} : wire' = WriteRequest(hdrIn, dataIn, failAt)
    /\ UNCHANGED <<quorumVars, poolVars, dataVars, hdrIn, dataIn, bufIn, decoded>>

\* WriteResponse(w, status, data): the status is the one of the header in hand.
ApplyWriteResponse ==
    /\ IsResponseHeader(hdrIn)
    /\ \E failAt \in {"none", "header", "data"} : wire' = WriteResponse(hdrIn.Status, dataIn, failAt)
    /\ UNCHANGED <<quorumVars, poolVars, dataVars, hdrIn, dataIn, bufIn, decoded>>

\* status.Error() of the status of the header in hand.
ApplyStatusError ==
    /\ IsResponseHeader(hdrIn)
    /\ decoded' = [of |-> "status", hdr |-> hdrIn, err |-> StatusError(hdrIn.Status)]
    /\ UNCHANGED <<quorumVars, poolVars, dataVars, hdrIn, dataIn, bufIn, wire>>

\* ------------------------------------------------------------- DataClient
\* uint64 and int64 at the width of the model: WordBits bits.
Word == 2 ^ WordBits
ToUint64(x) == x % Word
ToInt64(x) == IF x % Word >= Word \div 2 THEN (x % Word) - Word ELSE x % Word
Min(a, b) == IF a <= b THEN a ELSE b

\* The errors of the transport, as doRequest and ensureConnected wrap them.
ErrConnecting == "connecting"
ErrWritingRequest == "writing request"
ErrReadingHeader == "reading response header"
ErrReadingData == "reading response data"
ErrDiscardingExtra == "discarding extra response data"
ErrDiscarding == "discarding response data"
\* An error returned by net.Conn.Close.
ErrClosing == "closing connection"
TransportErrors == {ErrConnecting, ErrWritingRequest, ErrReadingHeader, ErrReadingData,
                    ErrDiscardingExtra, ErrDiscarding}
\* The error of DecodeResponseHeader for a response that does not start with the magic.
ErrInvalidMagic == "invalid magic"

\* The statuses a server answers with, the payload lengths it announces, the
\* payload of a given length, and the numbers of payload bytes that arrive
\* before the stream fails (all of them: it does not fail).
ServerStatuses == {StatusOK, StatusNotFound, StatusBadRequest, 7}
ServerLengths == {0, 1, 2, 3, Word \div 2, Word - 1}
ServerData(L) == [i \in 1..L |-> 64 + i]
Arrivals(L) == {0, L - 1, L} \cap 0..L
\* A caller's buffer of B bytes before the call.
Buffer(B) == [i \in 1..B |-> 0]

\* No request made yet.
NoCall ==
    [op |-> 0, length |-> 0, dstLen |-> 0, via |-> NoConn, writes |-> 0, status |-> StatusOK,
     respLen |-> 0, sent |-> <<>>, n |-> 0, err |-> Nil, dst |-> <<>>, rest |-> <<>>]

\* NewDataClient(addr): no connection yet.
NewDataClient ==
    /\ conn = NoConn
    /\ r = NoConn
    /\ dialed = 0
    /\ open = {}
    /\ call = NoCall
    /\ closeErr = NoRet

\* io.CopyN(io.Discard, c.r, k) on a stream that delivers avail more bytes
\* and then fails: the number of bytes taken and whether an error is returned.
\* A k that is not positive copies nothing and is no error.
CopyN(avail, k) ==
    IF k <= 0 THEN [copied |-> 0, failed |-> FALSE]
    ELSE IF avail >= k THEN [copied |-> k, failed |-> FALSE]
    ELSE [copied |-> avail, failed |-> TRUE]

\* Lines 99-128 of doRequest: the response announces respLen payload bytes, the
\* stream delivers sent and then fails, dst has dstLen bytes.  The count and
\* the error doRequest is about to return, dst afterwards, the delivered
\* bytes not taken from the stream, and whether the connection was closed.
ReadPayload(respLen, dstLen, sent) ==
    LET readLen == Min(respLen, ToUint64(dstLen))
        extra == ToUint64(respLen - ToUint64(dstLen))
        afterRead == CopyN(Len(sent) - readLen, ToInt64(extra))
        noDst == CopyN(Len(sent), ToInt64(respLen))
        data == SubSeq(sent, 1, Min(Len(sent), readLen))
        filled == data \o [i \in 1..(dstLen - Len(data)) |-> 0]
    IN  IF respLen > 0
        THEN IF dstLen > 0
             THEN IF Len(sent) < readLen
                  THEN [n |-> 0, err |-> ErrReadingData, dst |-> filled, rest |-> <<>>, closes |-> TRUE]
                  ELSE IF respLen > ToUint64(dstLen)
                  THEN IF afterRead.failed
                       THEN [n |-> readLen, err |-> ErrDiscardingExtra, dst |-> filled,
                             rest |-> <<>>, closes |-> TRUE]
                       ELSE [n |-> readLen, err |-> Nil, dst |-> filled,
                             rest |-> SubSeq(sent, readLen + afterRead.copied + 1, Len(sent)),
                             closes |-> FALSE]
                  ELSE [n |-> readLen, err |-> Nil, dst |-> filled,
                        rest |-> SubSeq(sent, readLen + 1, Len(sent)), closes |-> FALSE]
             ELSE IF noDst.failed
                  THEN [n |-> 0, err |-> ErrDiscarding, dst |-> <<>>, rest |-> <<>>, closes |-> TRUE]
                  ELSE [n |-> 0, err |-> Nil, dst |-> <<>>,
                        rest |-> SubSeq(sent, noDst.copied + 1, Len(sent)), closes |-> FALSE]
        ELSE [n |-> 0, err |-> Nil, dst |-> Buffer(dstLen), rest |-> sent, closes |-> FALSE]

\* A request of doRequest sent over the connection c (NoConn: never sent),
\* before anything came back.
Request(op, length, dstLen, c) ==
    [op |-> op, length |-> length, dstLen |-> dstLen, via |-> c,
     writes |-> IF c = NoConn THEN 0 ELSE 1, status |-> StatusOK, respLen |-> 0,
     sent |-> <<>>, n |-> 0, err |-> Nil, dst |-> Buffer(dstLen), rest |-> <<>>]

\* Mutant of DoRequest: a failed write leaves the connection in place.
DoRequest_KeepsConn(op, length, dstLen) ==
    /\ conn # NoConn \/ dialed < MaxDials
    /\ \/ /\ conn = NoConn
          /\ call' = [Request(op, length, dstLen, NoConn) EXCEPT !.err = ErrConnecting]
          /\ UNCHANGED <<conn, r, dialed, open>>
       \/ LET c == IF conn # NoConn THEN conn ELSE dialed + 1
              req == Request(op, length, dstLen, c)
          IN  /\ dialed' = IF conn # NoConn THEN dialed ELSE dialed + 1
              /\ r' = IF conn # NoConn THEN r ELSE c
              /\ \/ /\ call' = [req EXCEPT !.err = ErrWritingRequest]
                    /\ conn' = c
                    /\ open' = open \cup {c}
                 \/ \E e \in {ErrReadingHeader, ErrInvalidMagic} :
                        /\ call' = [req EXCEPT !.err = e]
                        /\ conn' = NoConn
                        /\ open' = open \ {c}
                 \/ \E status \in ServerStatuses, respLen \in ServerLengths :
                      \E k \in Arrivals(respLen) :
                        LET sent == SubSeq(ServerData(respLen), 1, k)
                            p == ReadPayload(respLen, dstLen, sent)
                            statusErr == StatusError(status)
                        IN  /\ call' = [req EXCEPT !.status = status, !.respLen = respLen,
                                           !.sent = sent,
                                           !.n = IF p.closes \/ statusErr = Nil THEN p.n ELSE 0,
                                           !.err = IF p.closes THEN p.err ELSE statusErr,
                                           !.dst = p.dst, !.rest = p.rest]
                            /\ conn' = IF p.closes THEN NoConn ELSE c
                            /\ open' = IF p.closes THEN open \ {c} ELSE open \cup {c}
    /\ closeErr' = NoRet
    /\ UNCHANGED <<quorumVars, poolVars, codecVars>>

\* doRequest(hdr, src, dst) with hdr.OpCode = op, hdr.Length = length and
\* len(dst) = dstLen, from ensureConnected to its return.  The network decides
\* whether net.Dial and the write succeed, what the response header is, and
\* how many of the announced payload bytes arrive before the stream fails.
DoRequest(op, length, dstLen) ==
    /\ conn # NoConn \/ dialed < MaxDials
    /\ \/ /\ conn = NoConn
          /\ call' = [Request(op, length, dstLen, NoConn) EXCEPT !.err = ErrConnecting]
          /\ UNCHANGED <<conn, r, dialed, open>>
       \/ LET c == IF conn # NoConn THEN conn ELSE dialed + 1
              req == Request(op, length, dstLen, c)
          IN  /\ dialed' = IF conn # NoConn THEN dialed ELSE dialed + 1
              /\ r' = IF conn # NoConn THEN r ELSE c
              /\ \/ \E e \in {ErrWritingRequest, ErrReadingHeader, ErrInvalidMagic} :
                        /\ call' = [req EXCEPT !.err = e]
                        /\ conn' = NoConn
                        /\ open' = open \ {c}
                 \/ \E status \in ServerStatuses, respLen \in ServerLengths :
                      \E k \in Arrivals(respLen) :
                        LET sent == SubSeq(ServerData(respLen), 1, k)
                            p == ReadPayload(respLen, dstLen, sent)
                            statusErr == StatusError(status)
                        IN  /\ call' = [req EXCEPT !.status = status, !.respLen = respLen,
                                           !.sent = sent,
                                           !.n = IF p.closes \/ statusErr = Nil THEN p.n ELSE 0,
                                           !.err = IF p.closes THEN p.err ELSE statusErr,
                                           !.dst = p.dst, !.rest = p.rest]
                            /\ conn' = IF p.closes THEN NoConn ELSE c
                            /\ open' = IF p.closes THEN open \ {c} ELSE open \cup {c}
    /\ closeErr' = NoRet
    /\ UNCHANGED <<quorumVars, poolVars, codecVars>>

\* DataClient.Append(id, offset, data) with len(data) = k.
DataClientAppend(k) == DoRequest(OpAppend, ToUint64(k), 0)
\* AppendSync(id, offset, data) with len(data) = k.
AppendSync(k) == DoRequest(OpAppendSync, ToUint64(k), 0)
\* Sync(id): AppendSync with no data.
Sync == AppendSync(0)
\* Read(id, offset, p) with len(p) = B.
Read(B) == DoRequest(OpRead, ToUint64(B), B)

\* Mutant of DataClientClose: a Close of an unconnected client reports an
\* error.
DataClientClose_Strict ==
    /\ IF conn # NoConn
       THEN /\ open' = open \ {conn}
            /\ conn' = NoConn
            /\ r' = NoConn
            /\ closeErr' \in {Nil, ErrClosing}
       ELSE /\ closeErr' = ErrClosing
            /\ UNCHANGED <<conn, r, open>>
    /\ UNCHANGED <<quorumVars, poolVars, codecVars, dialed, call>>

\* DataClient.Close: with a connection, c.conn.Close() (which returns nil or
\* an error), c.conn = nil, c.r = nil; without one, nil and nothing else.
DataClientClose ==
    /\ IF conn # NoConn
       THEN /\ open' = open \ {conn}
            /\ conn' = NoConn
            /\ r' = NoConn
            /\ closeErr' \in {Nil, ErrClosing}
       ELSE /\ closeErr' = Nil
            /\ UNCHANGED <<conn, r, open>>
    /\ UNCHANGED <<quorumVars, poolVars, codecVars, dialed, call>>

\* A quorum writer over 1..MaxReplicas replicas; its workers own dedicated
\* clients, so the pool stays as constructed.
Init ==
    /\ \E N \in 1..MaxReplicas : NewQuorumWriterWithFactory(N)
    /\ NewDataClientPool(<<1>>)
    /\ NewDataClient
    /\ CodecInputs(ZeroRequestHeader, <<>>)

\* ------------------------------------------------------------ WriteAndSync
\* Mutant of PrepareWrite: the closed flag is not looked at.
PrepareWrite_IgnoreClosed(len) ==
    /\ wsPc = "idle"
    /\ numCalls' = numCalls + 1
    /\ offset' = offset + len
    /\ currentOffset' = offset
    /\ successCount' = 0
    /\ failureCount' = 0
    /\ lastError' = Nil
    /\ wsReq' = [offset |-> offset, len |-> len, round |-> Len(accepted) + 1]
    /\ accepted' = Append(accepted, wsReq')
    /\ wsPc' = IF n = 0 THEN "wait" ELSE "fanout"
    /\ wsIdx' = 1
    /\ okBy' = {}
    /\ failBy' = {}
    /\ roundErr' = Nil
    /\ UNCHANGED <<poolVars, ioVars, n, quorum, closed, lastRet, workerVars, closerVars, submitted, issued,
                   waitingAtClose>>

\* prepareWrite, the first critical section of WriteAndSync(data), len(data) = len.
\* The fan-out loop that follows ranges over w.workers: without workers the
\* caller goes straight to waitForQuorum.
PrepareWrite(len) ==
    /\ wsPc = "idle"
    /\ numCalls' = numCalls + 1
    /\ IF closed
       THEN /\ lastRet' = ErrClosed
            /\ UNCHANGED <<writerVars, wsPc, wsIdx, wsReq, accepted, okBy, failBy, roundErr>>
       ELSE /\ offset' = offset + len
            /\ currentOffset' = offset
            /\ successCount' = 0
            /\ failureCount' = 0
            /\ lastError' = Nil
            /\ wsReq' = [offset |-> offset, len |-> len, round |-> Len(accepted) + 1]
            /\ accepted' = Append(accepted, wsReq')
            /\ wsPc' = IF n = 0 THEN "wait" ELSE "fanout"
            /\ wsIdx' = 1
            /\ okBy' = {}
            /\ failBy' = {}
            /\ roundErr' = Nil
            /\ UNCHANGED lastRet
    /\ UNCHANGED <<poolVars, ioVars, n, quorum, closed, workerVars, closerVars, submitted, issued,
                   waitingAtClose>>

\* quorumReplicaWorker.enqueue, called for workers[wsIdx] by the fan-out loop.
Enqueue ==
    /\ wsPc = "fanout"
    /\ queue' = [queue EXCEPT ![wsIdx] = Append(@, wsReq)]
    /\ submitted' = [submitted EXCEPT ![wsIdx] = Append(@, wsReq)]
    /\ IF wsIdx < n
       THEN wsIdx' = wsIdx + 1 /\ wsPc' = "fanout"
       ELSE wsIdx' = 1 /\ wsPc' = "wait"
    /\ UNCHANGED <<poolVars, ioVars, n, quorum, closed, writerVars, wclosed, clientClosed, wpc, cur,
                   wsReq, numCalls, lastRet, accepted, closerVars, issued, okBy, failBy,
                   waitingAtClose, roundErr>>

\* The success outcome of waitForQuorum: s successes with quorum q.
SuccessCondition(s, q) == s >= q

\* Mutant of FailureCondition: the bound is reached, not exceeded.
FailureCondition_AtBound(f, numWorkers, q) == f >= numWorkers - q

\* The failure outcome of waitForQuorum: with f failures out of numWorkers
\* replicas quorum q is out of reach (the loop's second conjunct is false).
FailureCondition(f, numWorkers, q) == f > numWorkers - q

\* Mutant of MustWait: the caller waits for every replica's success.
MustWait_AllReplicas(numWorkers) ==
    successCount < numWorkers /\ failureCount <= numWorkers - quorum

\* The loop condition of waitForQuorum(numWorkers).
MustWait(numWorkers) ==
    successCount < quorum /\ failureCount <= numWorkers - quorum

\* waitForQuorum: the caller leaves the loop and WriteAndSync returns.
WaitForQuorum ==
    /\ wsPc = "wait"
    /\ ~MustWait(n)
    /\ lastRet' = IF successCount >= quorum THEN Nil ELSE lastError
    /\ wsPc' = "idle"
    /\ wsReq' = NoReq
    /\ UNCHANGED <<poolVars, ioVars, n, quorum, closed, writerVars, workerVars, wsIdx, numCalls, accepted,
                   closerVars, ghostVars>>

\* ------------------------------------------------------------------ worker
\* Mutant of Dequeue: the worker takes the newest request of its queue.
Dequeue_Newest(i) ==
    /\ wpc[i] = "dequeue"
    /\ ~(Len(queue[i]) = 0 /\ ~wclosed[i])
    /\ IF Len(queue[i]) = 0
       THEN /\ wpc' = [wpc EXCEPT ![i] = "clientClose"]
            /\ UNCHANGED <<queue, cur, issued>>
       ELSE /\ cur' = [cur EXCEPT ![i] = queue[i][Len(queue[i])]]
            /\ queue' = [queue EXCEPT ![i] = SubSeq(@, 1, Len(@) - 1)]
            /\ issued' = [issued EXCEPT ![i] = Append(@, queue[i][Len(queue[i])])]
            /\ wpc' = [wpc EXCEPT ![i] = "appendSync"]
    /\ UNCHANGED <<poolVars, ioVars, n, quorum, closed, writerVars, wclosed, clientClosed, callerVars,
                   closerVars, submitted, okBy, failBy, waitingAtClose, roundErr>>

\* Mutant of Dequeue: a worker that has been told to stop leaves its loop at
\* once, whatever is in its queue.
Dequeue_NoDrain(i) ==
    /\ wpc[i] = "dequeue"
    /\ ~(Len(queue[i]) = 0 /\ ~wclosed[i])
    /\ IF wclosed[i]
       THEN /\ wpc' = [wpc EXCEPT ![i] = "clientClose"]
            /\ UNCHANGED <<queue, cur, issued>>
       ELSE /\ cur' = [cur EXCEPT ![i] = queue[i][1]]
            /\ queue' = [queue EXCEPT ![i] = Tail(@)]
            /\ issued' = [issued EXCEPT ![i] = Append(@, queue[i][1])]
            /\ wpc' = [wpc EXCEPT ![i] = "appendSync"]
    /\ UNCHANGED <<poolVars, ioVars, n, quorum, closed, writerVars, wclosed, clientClosed, callerVars,
                   closerVars, submitted, okBy, failBy, waitingAtClose, roundErr>>

\* quorumReplicaWorker.dequeue as called by run: take the head of the queue and
\* call AppendSync with it, or leave the loop when the queue is empty and the
\* worker is closed.
Dequeue(i) ==
    /\ wpc[i] = "dequeue"
    /\ ~(Len(queue[i]) = 0 /\ ~wclosed[i])
    /\ IF Len(queue[i]) = 0
       THEN /\ wpc' = [wpc EXCEPT ![i] = "clientClose"]
            /\ UNCHANGED <<queue, cur, issued>>
       ELSE /\ cur' = [cur EXCEPT ![i] = queue[i][1]]
            /\ queue' = [queue EXCEPT ![i] = Tail(@)]
            /\ issued' = [issued EXCEPT ![i] = Append(@, queue[i][1])]
            /\ wpc' = [wpc EXCEPT ![i] = "appendSync"]
    /\ UNCHANGED <<poolVars, ioVars, n, quorum, closed, writerVars, wclosed, clientClosed, callerVars,
                   closerVars, submitted, okBy, failBy, waitingAtClose, roundErr>>

\* Mutant of ReportResult: a failed AppendSync ends the worker's loop.
ReportResult_StopsOnError(i, err) ==
    /\ wpc[i] = "appendSync"
    /\ IF cur[i].offset # currentOffset
       THEN UNCHANGED <<successCount, failureCount, lastError>>
       ELSE IF err = Nil
            THEN /\ successCount' = successCount + 1
                 /\ UNCHANGED <<failureCount, lastError>>
            ELSE /\ failureCount' = failureCount + 1
                 /\ lastError' = err
                 /\ UNCHANGED successCount
    /\ okBy' = IF wsPc # "idle" /\ cur[i].round = CurrentRound /\ err = Nil
               THEN okBy \cup {i} ELSE okBy
    /\ failBy' = IF wsPc # "idle" /\ cur[i].round = CurrentRound /\ err # Nil
                 THEN failBy \cup {i} ELSE failBy
    /\ roundErr' = IF cur[i].round = CurrentRound /\ err # Nil THEN err ELSE roundErr
    /\ wpc' = [wpc EXCEPT ![i] = IF err = Nil THEN "dequeue" ELSE "clientClose"]
    /\ cur' = [cur EXCEPT ![i] = NoReq]
    /\ UNCHANGED <<poolVars, ioVars, n, quorum, closed, offset, currentOffset, queue, wclosed, clientClosed,
                   callerVars, closerVars, submitted, issued, waitingAtClose>>

\* The rest of run's loop body for the request in hand: rw.client.AppendSync
\* returns err (nil or an error) and the worker calls
\* QuorumWriter.reportResult(req.offset, err).  A replica that never answers
\* is a worker for which this step is never taken.
ReportResult(i, err) ==
    /\ wpc[i] = "appendSync"
    /\ IF cur[i].offset # currentOffset
       THEN UNCHANGED <<successCount, failureCount, lastError>>
       ELSE IF err = Nil
            THEN /\ successCount' = successCount + 1
                 /\ UNCHANGED <<failureCount, lastError>>
            ELSE /\ failureCount' = failureCount + 1
                 /\ lastError' = err
                 /\ UNCHANGED successCount
    /\ okBy' = IF wsPc # "idle" /\ cur[i].round = CurrentRound /\ err = Nil
               THEN okBy \cup {i} ELSE okBy
    /\ failBy' = IF wsPc # "idle" /\ cur[i].round = CurrentRound /\ err # Nil
                 THEN failBy \cup {i} ELSE failBy
    /\ roundErr' = IF cur[i].round = CurrentRound /\ err # Nil THEN err ELSE roundErr
    /\ wpc' = [wpc EXCEPT ![i] = "dequeue"]
    /\ cur' = [cur EXCEPT ![i] = NoReq]
    /\ UNCHANGED <<poolVars, ioVars, n, quorum, closed, offset, currentOffset, queue, wclosed, clientClosed,
                   callerVars, closerVars, submitted, issued, waitingAtClose>>

\* run's deferred function, first statement: rw.client.Close().
WorkerClientClose(i) ==
    /\ wpc[i] = "clientClose"
    /\ clientClosed' = [clientClosed EXCEPT ![i] = TRUE]
    /\ wpc' = [wpc EXCEPT ![i] = "markExit"]
    /\ UNCHANGED <<poolVars, ioVars, n, quorum, closed, writerVars, queue, wclosed, cur, callerVars,
                   closerVars, ghostVars>>

\* run's deferred function, the rest: rw.closed = true and the broadcast.
WorkerMarkExit(i) ==
    /\ wpc[i] = "markExit"
    /\ wclosed' = [wclosed EXCEPT ![i] = TRUE]
    /\ wpc' = [wpc EXCEPT ![i] = "exited"]
    /\ UNCHANGED <<poolVars, ioVars, n, quorum, closed, writerVars, queue, clientClosed, cur, callerVars,
                   closerVars, ghostVars>>

\* ------------------------------------------------------------------- Close
\* markClosed, the first critical section of Close: the call that finds the
\* writer open goes on to stop the workers, any other returns nil at once.
\* Both loops of Close range over w.workers: without workers Close is done.
MarkClosed ==
    /\ IF closed
       THEN /\ extraCloses < MaxExtraCloses
            /\ extraCloses' = extraCloses + 1
            /\ UNCHANGED <<closed, clPc, clIdx, waitingAtClose>>
       ELSE /\ clPc = "idle"
            /\ closed' = TRUE
            /\ clPc' = IF n = 0 THEN "done" ELSE "signal"
            /\ clIdx' = 1
            /\ waitingAtClose' = (wsPc = "wait")
            /\ UNCHANGED extraCloses
    /\ UNCHANGED <<poolVars, ioVars, n, quorum, writerVars, workerVars, callerVars, submitted, issued, okBy,
                   failBy, roundErr>>

\* Mutant of WorkerClose: Close closes the worker's connection itself.
WorkerClose_ClosesClient ==
    /\ clPc = "signal"
    /\ wclosed' = [wclosed EXCEPT ![clIdx] = TRUE]
    /\ clientClosed' = [clientClosed EXCEPT ![clIdx] = TRUE]
    /\ IF clIdx < n
       THEN clIdx' = clIdx + 1 /\ clPc' = "signal"
       ELSE clIdx' = 1 /\ clPc' = "waitExit"
    /\ UNCHANGED <<poolVars, ioVars, n, quorum, closed, writerVars, queue, wpc, cur,
                   callerVars, extraCloses, ghostVars>>

\* quorumReplicaWorker.close, called for workers[clIdx] by Close's first loop.
WorkerClose ==
    /\ clPc = "signal"
    /\ wclosed' = [wclosed EXCEPT ![clIdx] = TRUE]
    /\ IF clIdx < n
       THEN clIdx' = clIdx + 1 /\ clPc' = "signal"
       ELSE clIdx' = 1 /\ clPc' = "waitExit"
    /\ UNCHANGED <<poolVars, ioVars, n, quorum, closed, writerVars, queue, clientClosed, wpc, cur,
                   callerVars, extraCloses, ghostVars>>

\* quorumReplicaWorker.waitForExit, called for workers[clIdx] by Close's second
\* loop; after the last one Close returns nil.
WaitForExit ==
    /\ clPc = "waitExit"
    /\ wclosed[clIdx]
    /\ IF clIdx < n
       THEN clIdx' = clIdx + 1 /\ clPc' = "waitExit"
       ELSE clIdx' = 1 /\ clPc' = "done"
    /\ UNCHANGED <<poolVars, ioVars, n, quorum, closed, writerVars, workerVars, callerVars, extraCloses,
                   ghostVars>>

\* ----------------------------------------------------------- specification
\* A caller's next WriteAndSync call, at most maxWrites calls in all.
Call(maxWrites) ==
    \E len \in PayloadLens : numCalls < maxWrites /\ PrepareWrite(len)

\* AppendSync of worker i returns, with any outcome.
Answer(i) ==
    \E err \in AppendErrors \cup {Nil} : ReportResult(i, err)

Next ==
    \/ Call(MaxWrites)
    \/ Enqueue
    \/ WaitForQuorum
    \/ \E i \in Workers : Dequeue(i)
    \/ \E i \in Workers : Answer(i)
    \/ \E i \in Workers : WorkerClientClose(i)
    \/ \E i \in Workers : WorkerMarkExit(i)
    \/ MarkClosed
    \/ WorkerClose
    \/ WaitForExit

Spec == Init /\ [][Next]_vars

\* The writer while nobody calls Close.
NextOpen ==
    \/ Call(MaxWrites)
    \/ Enqueue
    \/ WaitForQuorum
    \/ \E i \in Workers : Dequeue(i)
    \/ \E i \in Workers : Answer(i)

\* One WriteAndSync caller and callers of Close.
NextClosing ==
    \/ Call(MaxWritesClosing)
    \/ Enqueue
    \/ WaitForQuorum
    \/ \E i \in Workers : Dequeue(i)
    \/ \E i \in Workers : Answer(i)
    \/ \E i \in Workers : WorkerClientClose(i)
    \/ \E i \in Workers : WorkerMarkExit(i)
    \/ MarkClosed
    \/ WorkerClose
    \/ WaitForExit

\* Scheduling: a goroutine that can take its next step takes it.  Nothing
\* makes a caller call WriteAndSync or Close, and nothing makes a replica
\* answer an AppendSync.
CallerFairness ==
    WF_vars(Enqueue) /\ WF_vars(WaitForQuorum)

WorkerFairness ==
    \A i \in 1..MaxReplicas :
        /\ WF_vars(i \in Workers /\ Dequeue(i))
        /\ WF_vars(i \in Workers /\ WorkerClientClose(i))
        /\ WF_vars(i \in Workers /\ WorkerMarkExit(i))

CloserFairness ==
    WF_vars(WorkerClose) /\ WF_vars(WaitForExit)

\* Every replica answers every AppendSync.
ResponsiveReplicas ==
    \A i \in 1..MaxReplicas : WF_vars(i \in Workers /\ Answer(i))

LiveSpec ==
    Init /\ [][NextOpen]_vars /\ CallerFairness /\ WorkerFairness

ClosingSpec ==
    Init /\ [][NextClosing]_vars /\ CallerFairness /\ WorkerFairness /\ CloserFairness

\* A quorum writer over any replica list, the empty one included:
\* newQuorumWriterWithFactory takes len(replicas) as it comes.
AnySizeInit ==
    /\ \E N \in 0..MaxReplicas : NewQuorumWriterWithFactory(N)
    /\ NewDataClientPool(<<1>>)
    /\ NewDataClient
    /\ CodecInputs(ZeroRequestHeader, <<>>)

AnySizeSpec ==
    AnySizeInit /\ [][NextClosing]_vars

\* ==================================================================== pool
\* DataClientPool of internal/blob: per-server sub-pools (serverPool), callers
\* that Acquire, Release and ReleaseWithError, and callers of Close.  Every
\* action is one critical section of the Go code; a caller blocked in
\* sp.cond.Wait stands at "waiting" and, once signalled, at "woken" until it
\* has the sub-pool's mutex again.

\* The clients a caller owns: returned to it by Acquire and not yet handed to
\* serverPool.release or serverPool.releaseWithError.
Holds(c) == cpc[c] \in {"holding", "release", "releaseWithError"}
HeldAt(a) == {c \in PoolCallers : Holds(c) /\ connAddr[cconn[c]] = a}

\* The elements of a sequence.
Range(s) == {s[k] : k \in 1..Len(s)}

\* Sequence s without the occurrences of x.
Without(s, x) == SelectSeq(s, LAMBDA y : y # x)

\* sp.cond.Signal() on the sub-pool of address a, after which caller c returns:
\* one of the callers blocked in Wait, if there is any, is woken.
Signal(a, c) ==
    \E w \in IF waiters[a] = {} THEN {0} ELSE waiters[a] :
        /\ waiters' = [waiters EXCEPT ![a] = @ \ {w}]
        /\ cpc' = [x \in PoolCallers |->
                      IF x = c THEN "idle" ELSE IF x = w THEN "woken" ELSE cpc[x]]

\* DataClientPool.Acquire(a) by caller c up to the call of sp.acquire: nil when
\* the pool is closed, else the sub-pool of a, created if there is none.
Acquire(c, a) ==
    /\ cpc[c] = "idle"
    /\ IF pclosed
       THEN /\ cret' = [cret EXCEPT ![c] = Nil]
            /\ refused' = (refused \/ pcl = "done")
            /\ UNCHANGED <<pools, cpc, caddr>>
       ELSE /\ pools' = pools \cup {a}
            /\ cpc' = [cpc EXCEPT ![c] = "acquire"]
            /\ caddr' = [caddr EXCEPT ![c] = a]
            /\ cret' = [cret EXCEPT ![c] = NoRet]
            /\ UNCHANGED refused
    /\ blockedAtClose' = blockedAtClose \ {c}
    /\ UNCHANGED <<quorumVars, ioVars, sizeOpts, poolSize, pclosed, serverPoolVars, cconn, connVars,
                   poolCloserVars, released>>

\* Mutant of SpAcquire: an idle client is taken from the bottom of the stack.
SpAcquire_Oldest(c) ==
    /\ cpc[c] \in {"acquire", "woken"}
    /\ LET a == caddr[c] IN
       /\ ~(~spClosed[a] /\ clients[a] = <<>> /\ count[a] < poolSize /\ nextId >= MaxConns)
       /\ IF spClosed[a]
          THEN /\ cpc' = [cpc EXCEPT ![c] = "idle"]
               /\ cret' = [cret EXCEPT ![c] = Nil]
               /\ caddr' = [caddr EXCEPT ![c] = NoAddr]
               /\ UNCHANGED <<clients, count, waiters, cconn, connVars, released>>
          ELSE IF Len(clients[a]) > 0
          THEN /\ cconn' = [cconn EXCEPT ![c] = clients[a][1]]
               /\ clients' = [clients EXCEPT ![a] = Tail(@)]
               /\ released' = [released EXCEPT ![a] = Without(@, clients[a][1])]
               /\ cpc' = [cpc EXCEPT ![c] = "holding"]
               /\ cret' = [cret EXCEPT ![c] = "reused"]
               /\ UNCHANGED <<count, waiters, caddr, connVars>>
          ELSE IF count[a] < poolSize
          THEN /\ count' = [count EXCEPT ![a] = @ + 1]
               /\ nextId' = nextId + 1
               /\ connAddr' = [connAddr EXCEPT ![nextId + 1] = a]
               /\ cconn' = [cconn EXCEPT ![c] = nextId + 1]
               /\ cpc' = [cpc EXCEPT ![c] = "holding"]
               /\ cret' = [cret EXCEPT ![c] = "created"]
               /\ UNCHANGED <<clients, waiters, caddr, connClosed, released>>
          ELSE /\ waiters' = [waiters EXCEPT ![a] = @ \cup {c}]
               /\ cpc' = [cpc EXCEPT ![c] = "waiting"]
               /\ UNCHANGED <<clients, count, caddr, cconn, cret, connVars, released>>
    /\ UNCHANGED <<quorumVars, ioVars, sizeOpts, poolSize, pclosed, pools, spClosed, poolCloserVars,
                   blockedAtClose, refused>>

\* Mutant of SpAcquire: the pool size limit is not looked at.
SpAcquire_NoLimit(c) ==
    /\ cpc[c] \in {"acquire", "woken"}
    /\ LET a == caddr[c] IN
       /\ ~(~spClosed[a] /\ clients[a] = <<>> /\ nextId >= MaxConns)
       /\ IF spClosed[a]
          THEN /\ cpc' = [cpc EXCEPT ![c] = "idle"]
               /\ cret' = [cret EXCEPT ![c] = Nil]
               /\ caddr' = [caddr EXCEPT ![c] = NoAddr]
               /\ UNCHANGED <<clients, count, waiters, cconn, connVars, released>>
          ELSE IF Len(clients[a]) > 0
          THEN /\ cconn' = [cconn EXCEPT ![c] = clients[a][Len(clients[a])]]
               /\ clients' = [clients EXCEPT ![a] = SubSeq(@, 1, Len(@) - 1)]
               /\ released' = [released EXCEPT ![a] = Without(@, clients[a][Len(clients[a])])]
               /\ cpc' = [cpc EXCEPT ![c] = "holding"]
               /\ cret' = [cret EXCEPT ![c] = "reused"]
               /\ UNCHANGED <<count, waiters, caddr, connVars>>
          ELSE /\ count' = [count EXCEPT ![a] = @ + 1]
               /\ nextId' = nextId + 1
               /\ connAddr' = [connAddr EXCEPT ![nextId + 1] = a]
               /\ cconn' = [cconn EXCEPT ![c] = nextId + 1]
               /\ cpc' = [cpc EXCEPT ![c] = "holding"]
               /\ cret' = [cret EXCEPT ![c] = "created"]
               /\ UNCHANGED <<clients, waiters, caddr, connClosed, released>>
    /\ UNCHANGED <<quorumVars, ioVars, sizeOpts, poolSize, pclosed, pools, spClosed, poolCloserVars,
                   blockedAtClose, refused>>

\* Mutant of SpAcquire: the client returned stays on the idle stack.
SpAcquire_NoPop(c) ==
    /\ cpc[c] \in {"acquire", "woken"}
    /\ LET a == caddr[c] IN
       /\ ~(~spClosed[a] /\ clients[a] = <<>> /\ count[a] < poolSize /\ nextId >= MaxConns)
       /\ IF spClosed[a]
          THEN /\ cpc' = [cpc EXCEPT ![c] = "idle"]
               /\ cret' = [cret EXCEPT ![c] = Nil]
               /\ caddr' = [caddr EXCEPT ![c] = NoAddr]
               /\ UNCHANGED <<clients, count, waiters, cconn, connVars, released>>
          ELSE IF Len(clients[a]) > 0
          THEN /\ cconn' = [cconn EXCEPT ![c] = clients[a][Len(clients[a])]]
               /\ UNCHANGED clients
               /\ released' = [released EXCEPT ![a] = Without(@, clients[a][Len(clients[a])])]
               /\ cpc' = [cpc EXCEPT ![c] = "holding"]
               /\ cret' = [cret EXCEPT ![c] = "reused"]
               /\ UNCHANGED <<count, waiters, caddr, connVars>>
          ELSE IF count[a] < poolSize
          THEN /\ count' = [count EXCEPT ![a] = @ + 1]
               /\ nextId' = nextId + 1
               /\ connAddr' = [connAddr EXCEPT ![nextId + 1] = a]
               /\ cconn' = [cconn EXCEPT ![c] = nextId + 1]
               /\ cpc' = [cpc EXCEPT ![c] = "holding"]
               /\ cret' = [cret EXCEPT ![c] = "created"]
               /\ UNCHANGED <<clients, waiters, caddr, connClosed, released>>
          ELSE /\ waiters' = [waiters EXCEPT ![a] = @ \cup {c}]
               /\ cpc' = [cpc EXCEPT ![c] = "waiting"]
               /\ UNCHANGED <<clients, count, caddr, cconn, cret, connVars, released>>
    /\ UNCHANGED <<quorumVars, ioVars, sizeOpts, poolSize, pclosed, pools, spClosed, poolCloserVars,
                   blockedAtClose, refused>>

\* serverPool.acquire, one iteration of its loop by caller c (on entry, or with
\* the mutex again after a wake-up): nil when the sub-pool is closed, else the
\* top of the idle stack, else a new client while count < poolSize, else Wait.
SpAcquire(c) ==
    /\ cpc[c] \in {"acquire", "woken"}
    /\ LET a == caddr[c] IN
       /\ ~(~spClosed[a] /\ clients[a] = <<>> /\ count[a] < poolSize /\ nextId >= MaxConns)
       /\ IF spClosed[a]
          THEN /\ cpc' = [cpc EXCEPT ![c] = "idle"]
               /\ cret' = [cret EXCEPT ![c] = Nil]
               /\ caddr' = [caddr EXCEPT ![c] = NoAddr]
               /\ UNCHANGED <<clients, count, waiters, cconn, connVars, released>>
          ELSE IF Len(clients[a]) > 0
          THEN /\ cconn' = [cconn EXCEPT ![c] = clients[a][Len(clients[a])]]
               /\ clients' = [clients EXCEPT ![a] = SubSeq(@, 1, Len(@) - 1)]
               /\ released' = [released EXCEPT ![a] = Without(@, clients[a][Len(clients[a])])]
               /\ cpc' = [cpc EXCEPT ![c] = "holding"]
               /\ cret' = [cret EXCEPT ![c] = "reused"]
               /\ UNCHANGED <<count, waiters, caddr, connVars>>
          ELSE IF count[a] < poolSize
          THEN /\ count' = [count EXCEPT ![a] = @ + 1]
               /\ nextId' = nextId + 1
               /\ connAddr' = [connAddr EXCEPT ![nextId + 1] = a]
               /\ cconn' = [cconn EXCEPT ![c] = nextId + 1]
               /\ cpc' = [cpc EXCEPT ![c] = "holding"]
               /\ cret' = [cret EXCEPT ![c] = "created"]
               /\ UNCHANGED <<clients, waiters, caddr, connClosed, released>>
          ELSE /\ waiters' = [waiters EXCEPT ![a] = @ \cup {c}]
               /\ cpc' = [cpc EXCEPT ![c] = "waiting"]
               /\ UNCHANGED <<clients, count, caddr, cconn, cret, connVars, released>>
    /\ UNCHANGED <<quorumVars, ioVars, sizeOpts, poolSize, pclosed, pools, spClosed, poolCloserVars,
                   blockedAtClose, refused>>

\* Mutant of Release: the sub-pool is looked up under any address that has one.
Release_AnyPool(c) ==
    /\ cpc[c] = "holding"
    /\ IF pools # {}
       THEN /\ cpc' = [cpc EXCEPT ![c] = "release"]
            /\ \E a \in pools : caddr' = [caddr EXCEPT ![c] = a]
            /\ UNCHANGED cconn
       ELSE /\ cpc' = [cpc EXCEPT ![c] = "idle"]
            /\ cconn' = [cconn EXCEPT ![c] = NoConn]
            /\ caddr' = [caddr EXCEPT ![c] = NoAddr]
    /\ cret' = [cret EXCEPT ![c] = NoRet]
    /\ blockedAtClose' = blockedAtClose \ {c}
    /\ UNCHANGED <<quorumVars, ioVars, sizeOpts, poolSize, pclosed, pools, serverPoolVars, connVars,
                   poolCloserVars, released, refused>>

\* DataClientPool.Release(client) by the caller c that holds client, up to the
\* call of sp.release: the sub-pool is looked up by the client's address; with
\* no entry in the map the call returns and the client is left as it is.
Release(c) ==
    /\ cpc[c] = "holding"
    /\ IF connAddr[cconn[c]] \in pools
       THEN /\ cpc' = [cpc EXCEPT ![c] = "release"]
            /\ caddr' = [caddr EXCEPT ![c] = connAddr[cconn[c]]]
            /\ UNCHANGED cconn
       ELSE /\ cpc' = [cpc EXCEPT ![c] = "idle"]
            /\ cconn' = [cconn EXCEPT ![c] = NoConn]
            /\ caddr' = [caddr EXCEPT ![c] = NoAddr]
    /\ cret' = [cret EXCEPT ![c] = NoRet]
    /\ blockedAtClose' = blockedAtClose \ {c}
    /\ UNCHANGED <<quorumVars, ioVars, sizeOpts, poolSize, pclosed, pools, serverPoolVars, connVars,
                   poolCloserVars, released, refused>>

\* Mutant of SpRelease: nobody is signalled.
SpRelease_NoSignal(c) ==
    /\ cpc[c] = "release"
    /\ LET a == caddr[c]
           id == cconn[c]
       IN  /\ IF spClosed[a]
              THEN /\ connClosed' = [connClosed EXCEPT ![id] = TRUE]
                   /\ UNCHANGED <<clients, released>>
              ELSE /\ clients' = [clients EXCEPT ![a] = Append(@, id)]
                   /\ released' = [released EXCEPT ![a] = Append(@, id)]
                   /\ UNCHANGED connClosed
           /\ cpc' = [cpc EXCEPT ![c] = "idle"]
           /\ UNCHANGED waiters
    /\ cconn' = [cconn EXCEPT ![c] = NoConn]
    /\ caddr' = [caddr EXCEPT ![c] = NoAddr]
    /\ UNCHANGED <<quorumVars, ioVars, sizeOpts, poolSize, pclosed, pools, count, spClosed, cret, nextId,
                   connAddr, poolCloserVars, blockedAtClose, refused>>

\* serverPool.release(client) by caller c: the client is closed when the
\* sub-pool is closed, else pushed on the idle stack and one waiter signalled.
SpRelease(c) ==
    /\ cpc[c] = "release"
    /\ LET a == caddr[c]
           id == cconn[c]
       IN  IF spClosed[a]
           THEN /\ connClosed' = [connClosed EXCEPT ![id] = TRUE]
                /\ cpc' = [cpc EXCEPT ![c] = "idle"]
                /\ UNCHANGED <<clients, waiters, released>>
           ELSE /\ clients' = [clients EXCEPT ![a] = Append(@, id)]
                /\ released' = [released EXCEPT ![a] = Append(@, id)]
                /\ Signal(a, c)
                /\ UNCHANGED connClosed
    /\ cconn' = [cconn EXCEPT ![c] = NoConn]
    /\ caddr' = [caddr EXCEPT ![c] = NoAddr]
    /\ UNCHANGED <<quorumVars, ioVars, sizeOpts, poolSize, pclosed, pools, count, spClosed, cret, nextId,
                   connAddr, poolCloserVars, blockedAtClose, refused>>

\* DataClientPool.ReleaseWithError(client) by the caller c that holds client,
\* up to the call of sp.releaseWithError: the same lookup as Release.
ReleaseWithError(c) ==
    /\ cpc[c] = "holding"
    /\ IF connAddr[cconn[c]] \in pools
       THEN /\ cpc' = [cpc EXCEPT ![c] = "releaseWithError"]
            /\ caddr' = [caddr EXCEPT ![c] = connAddr[cconn[c]]]
            /\ UNCHANGED cconn
       ELSE /\ cpc' = [cpc EXCEPT ![c] = "idle"]
            /\ cconn' = [cconn EXCEPT ![c] = NoConn]
            /\ caddr' = [caddr EXCEPT ![c] = NoAddr]
    /\ cret' = [cret EXCEPT ![c] = NoRet]
    /\ blockedAtClose' = blockedAtClose \ {c}
    /\ UNCHANGED <<quorumVars, ioVars, sizeOpts, poolSize, pclosed, pools, serverPoolVars, connVars,
                   poolCloserVars, released, refused>>

\* Mutant of SpReleaseWithError: the discarded client is put back on the idle
\* stack.
SpReleaseWithError_Reuses(c) ==
    /\ cpc[c] = "releaseWithError"
    /\ connClosed' = [connClosed EXCEPT ![cconn[c]] = TRUE]
    /\ clients' = [clients EXCEPT ![caddr[c]] = Append(@, cconn[c])]
    /\ Signal(caddr[c], c)
    /\ cconn' = [cconn EXCEPT ![c] = NoConn]
    /\ caddr' = [caddr EXCEPT ![c] = NoAddr]
    /\ UNCHANGED <<quorumVars, ioVars, sizeOpts, poolSize, pclosed, pools, count, spClosed, cret, nextId,
                   connAddr, poolCloserVars, blockedAtClose, released, refused>>

\* serverPool.releaseWithError(client) by caller c: the client is closed, the
\* count decremented and one waiter signalled.
SpReleaseWithError(c) ==
    /\ cpc[c] = "releaseWithError"
    /\ connClosed' = [connClosed EXCEPT ![cconn[c]] = TRUE]
    /\ count' = [count EXCEPT ![caddr[c]] = @ - 1]
    /\ Signal(caddr[c], c)
    /\ cconn' = [cconn EXCEPT ![c] = NoConn]
    /\ caddr' = [caddr EXCEPT ![c] = NoAddr]
    /\ UNCHANGED <<quorumVars, ioVars, sizeOpts, poolSize, pclosed, pools, clients, spClosed, cret, nextId,
                   connAddr, poolCloserVars, blockedAtClose, released, refused>>

\* Mutant of PoolClose: the pool is not marked closed.
PoolClose_NotMarked ==
    /\ pcl = "idle"
    /\ toClose' = pools
    /\ pools' = {}
    /\ pcl' = IF pools = {} THEN "done" ELSE "closing"
    /\ blockedAtClose' = {c \in PoolCallers : cpc[c] = "waiting"}
    /\ UNCHANGED <<quorumVars, ioVars, sizeOpts, poolSize, pclosed, serverPoolVars, poolCallerVars, connVars,
                   pExtraCloses, released, refused>>

\* DataClientPool.Close up to its loop: a call that finds the pool closed
\* returns nil at once; the call that finds it open marks it closed and takes
\* the map of sub-pools away.
PoolClose ==
    /\ IF pclosed
       THEN /\ pExtraCloses < MaxExtraCloses
            /\ pExtraCloses' = pExtraCloses + 1
            /\ UNCHANGED <<pclosed, pools, pcl, toClose, blockedAtClose>>
       ELSE /\ pclosed' = TRUE
            /\ toClose' = pools
            /\ pools' = {}
            /\ pcl' = IF pools = {} THEN "done" ELSE "closing"
            /\ blockedAtClose' = {c \in PoolCallers : cpc[c] = "waiting"}
            /\ UNCHANGED pExtraCloses
    /\ UNCHANGED <<quorumVars, ioVars, sizeOpts, poolSize, serverPoolVars, poolCallerVars, connVars,
                   released, refused>>

\* Mutant of SpClose: the waiters are not woken.
SpClose_NoBroadcast(a) ==
    /\ pcl = "closing"
    /\ a \in toClose
    /\ spClosed' = [spClosed EXCEPT ![a] = TRUE]
    /\ connClosed' = [id \in ConnIds |-> connClosed[id] \/ id \in Range(clients[a])]
    /\ clients' = [clients EXCEPT ![a] = <<>>]
    /\ released' = [released EXCEPT ![a] = <<>>]
    /\ toClose' = toClose \ {a}
    /\ pcl' = IF toClose = {a} THEN "done" ELSE "closing"
    /\ UNCHANGED <<quorumVars, ioVars, sizeOpts, poolSize, pclosed, pools, count, waiters, poolCallerVars,
                   nextId, connAddr, pExtraCloses, blockedAtClose, refused>>

\* serverPool.close of the sub-pool of address a, called by Close's loop (a map
\* is ranged over in any order); after the last one Close returns nil.
SpClose(a) ==
    /\ pcl = "closing"
    /\ a \in toClose
    /\ spClosed' = [spClosed EXCEPT ![a] = TRUE]
    /\ connClosed' = [id \in ConnIds |-> connClosed[id] \/ id \in Range(clients[a])]
    /\ clients' = [clients EXCEPT ![a] = <<>>]
    /\ released' = [released EXCEPT ![a] = <<>>]
    /\ waiters' = [waiters EXCEPT ![a] = {}]
    /\ cpc' = [x \in PoolCallers |-> IF x \in waiters[a] THEN "woken" ELSE cpc[x]]
    /\ toClose' = toClose \ {a}
    /\ pcl' = IF toClose = {a} THEN "done" ELSE "closing"
    /\ UNCHANGED <<quorumVars, ioVars, sizeOpts, poolSize, pclosed, pools, count, caddr, cconn, cret,
                   nextId, connAddr, pExtraCloses, blockedAtClose, refused>>

\* ------------------------------------------------------ pool specification
\* A pool of any size in 1..MaxPoolSize next to a writer that is not used.
PoolInit ==
    /\ NewQuorumWriterWithFactory(1)
    /\ \E size \in 1..MaxPoolSize : NewDataClientPool(<<size>>)
    /\ NewDataClient
    /\ CodecInputs(ZeroRequestHeader, <<>>)

PoolNext ==
    \/ \E c \in PoolCallers, a \in Addrs : Acquire(c, a)
    \/ \E c \in PoolCallers : SpAcquire(c)
    \/ \E c \in PoolCallers : Release(c)
    \/ \E c \in PoolCallers : SpRelease(c)
    \/ \E c \in PoolCallers : ReleaseWithError(c)
    \/ \E c \in PoolCallers : SpReleaseWithError(c)
    \/ PoolClose
    \/ \E a \in Addrs : SpClose(a)

PoolSpec == PoolInit /\ [][PoolNext]_vars

\* Scheduling: a goroutine inside a sub-pool's critical section, or woken from
\* Wait, gets the mutex and takes its step, and Close's loop goes on.  Nothing
\* makes a caller call Acquire, Release, ReleaseWithError or Close.
PoolFairness ==
    /\ \A c \in PoolCallers :
           /\ WF_vars(SpAcquire(c))
           /\ WF_vars(SpRelease(c))
           /\ WF_vars(SpReleaseWithError(c))
    /\ \A a \in Addrs : WF_vars(SpClose(a))

\* The pool while every caller asks for the same server.
OneServerNext ==
    \/ \E c \in PoolCallers : Acquire(c, 1)
    \/ \E c \in PoolCallers : SpAcquire(c)
    \/ \E c \in PoolCallers : Release(c)
    \/ \E c \in PoolCallers : SpRelease(c)
    \/ \E c \in PoolCallers : ReleaseWithError(c)
    \/ \E c \in PoolCallers : SpReleaseWithError(c)
    \/ PoolClose
    \/ \E a \in Addrs : SpClose(a)

OneServerLiveSpec == PoolInit /\ [][OneServerNext]_vars /\ PoolFairness

\* ------------------------------------------- pool configuration specification
\* A pool built with any of the option lists, used for one server.
ConfigInit ==
    /\ NewQuorumWriterWithFactory(1)
    /\ \E opts \in OptionLists : NewDataClientPool(opts)
    /\ NewDataClient
    /\ CodecInputs(ZeroRequestHeader, <<>>)

ConfigSpec == ConfigInit /\ [][OneServerNext]_vars

\* ------------------------------------------------ DataClient specification
\* One DataClient used by one goroutine, next to a writer and a pool that are
\* not used.
DataInit ==
    /\ NewQuorumWriterWithFactory(1)
    /\ NewDataClientPool(<<1>>)
    /\ NewDataClient
    /\ CodecInputs(ZeroRequestHeader, <<>>)

DataNext ==
    \/ \E k \in 0..MaxBuf : DataClientAppend(k)
    \/ \E k \in 0..MaxBuf : AppendSync(k)
    \/ Sync
    \/ \E B \in 0..MaxBuf : Read(B)
    \/ DataClientClose

DataSpec == DataInit /\ [][DataNext]_vars

\* ----------------------------------------------------- codec specification
\* The codec applied to one header and one payload out of the input sets.
CodecInit ==
    /\ NewQuorumWriterWithFactory(1)
    /\ NewDataClientPool(<<1>>)
    /\ NewDataClient
    /\ \E h \in RequestHeaders \cup ResponseHeaders, d \in Payloads : CodecInputs(h, d)

CodecNext ==
    \/ ApplyRequestHeaderEncode
    \/ ApplyResponseHeaderEncode
    \/ ApplyDecodeRequestHeader
    \/ ApplyDecodeResponseHeader
    \/ ApplyWriteRequest
    \/ ApplyWriteResponse
    \/ ApplyStatusError

CodecSpec == CodecInit /\ [][CodecNext]_vars

\* ------------------------------------------------------------------ claims
\* A call is in flight: prepareWrite accepted it and WriteAndSync has not returned.
InFlight == wsPc \in {"fanout", "wait"}

\* The value the latest WriteAndSync call returned, once it has returned.
Returned(v) ==
    wsPc = "idle" /\ numCalls >= 1 /\ lastRet = v

\* C1 (quorum safety): a WriteAndSync call returns nil only if at least quorum
\* distinct workers reported a successful AppendSync of the request of that
\* same call.
C1_QuorumSafety ==
    Returned(Nil) => Cardinality(okBy) >= quorum

\* C2 (stale-result isolation): a result a worker reports for the request of
\* an earlier round never changes successCount or failureCount of the current
\* round.
C2_StaleIsolation ==
    [][\A i \in Workers :
          (wpc[i] = "appendSync" /\ wpc'[i] = "dequeue" /\ cur[i].round < CurrentRound)
              => UNCHANGED <<successCount, failureCount>>]_vars

\* The c-th WriteAndSync call has returned v.
CallReturned(c, v) == wsPc = "idle" /\ numCalls = c /\ lastRet = v

\* C3 (quorum failure threshold): a call for whose request more than
\* N - quorum replicas reported failure returns a non-nil error; stated for
\* the call that has returned: it did not return nil.
C3_FailureThreshold ==
    (wsPc = "idle" /\ Cardinality(failBy) > n - quorum) => lastRet # Nil

\* C4 (quorum liveness): once quorum replicas have reported success for the
\* request of the call in flight, that call eventually returns nil, also when
\* the other replicas never answer and whether the results came before or
\* after the caller started waiting; returning leaves the stragglers' queued
\* and in-flight requests as they are.
C4_QuorumLiveness ==
    /\ \A c \in 1..MaxWrites :
           (InFlight /\ numCalls = c /\ Cardinality(okBy) >= quorum)
               ~> CallReturned(c, Nil)
    /\ [][(wsPc = "wait" /\ wsPc' = "idle") => UNCHANGED <<queue, cur, wpc>>]_vars

\* A call returned nil on a quorum of 2 of 3 while the third replica has not
\* answered that call's request.
C4_Witness ==
    /\ n = 3
    /\ Returned(Nil)
    /\ Cardinality(okBy) = quorum
    /\ \E i \in Workers : wpc[i] = "appendSync" /\ cur[i].round = CurrentRound

\* C5 (Close waits for the workers): when the effective Close call has
\* returned, every worker has left its run loop and closed its dedicated
\* connection.
C5_CloseWaitsForWorkers ==
    clPc = "done" => \A i \in Workers : wpc[i] \in {"markExit", "exited"} /\ clientClosed[i]

\* Worker i leaves its run loop in this step.
LeavesLoop(i) == wpc[i] = "dequeue" /\ wpc'[i] = "clientClose"

\* C6 (drain on shutdown): a worker leaves its run loop only when it has been
\* told to stop and its queue is empty, having issued through AppendSync, in
\* queue order, every request enqueued so far, so also every request that was
\* in its queue when it was told to stop.
C6_DrainOnShutdown ==
    [][\A i \in Workers :
          LeavesLoop(i) => /\ wclosed[i]
                           /\ queue[i] = <<>>
                           /\ issued[i] = submitted[i]]_vars

\* Both requests of two calls were enqueued before Close marked the writer
\* (the second call was already waiting for quorum), a worker has since been
\* told to stop and still has both in its queue.
C6_Witness ==
    \E i \in Workers :
        waitingAtClose /\ wclosed[i] /\ wpc[i] = "dequeue" /\ Len(queue[i]) = 2

\* C7 (closed is terminal): once the writer is marked closed it stays closed;
\* every WriteAndSync call made from then on returns ErrClosed at once and
\* leaves the cursor, the current epoch, the counters, the last error and every
\* worker queue unchanged; every Close call made from then on changes nothing.
C7_ClosedTerminal ==
    [][closed =>
          /\ closed'
          /\ (numCalls' # numCalls) =>
                 /\ lastRet' = ErrClosed
                 /\ wsPc' = "idle"
                 /\ UNCHANGED <<offset, currentOffset, successCount, failureCount,
                                lastError, queue, accepted>>
          /\ (extraCloses' # extraCloses) =>
                 UNCHANGED <<writerVars, workerVars, callerVars, clPc, clIdx>>]_vars

\* After Close marked the writer, a WriteAndSync call was refused with
\* ErrClosed and a second Close call returned.
C7_Witness ==
    /\ closed
    /\ extraCloses >= 1
    /\ lastRet = ErrClosed

\* C8, as claimed (Close cancels an issued WriteAndSync): a call blocked in
\* waitForQuorum once the writer is closed eventually returns, also when the
\* replicas never answer.
C8_CloseCancels ==
    (wsPc = "wait" /\ closed) ~> (wsPc = "idle")

\* C8, amended: a call that is blocked in waitForQuorum when Close marks the
\* writer closed eventually returns provided every replica answers the
\* AppendSync calls issued to it (the stopped workers drain their queues and
\* report); Close itself does not wake the caller.
C8_BlockedCallReturns ==
    ResponsiveReplicas => (waitingAtClose ~> (wsPc = "idle"))

\* A call on three replicas was waiting for quorum when Close marked the writer,
\* and has returned since.
C8_Witness ==
    n = 3 /\ waitingAtClose /\ wsPc = "idle" /\ numCalls = 1 /\ lastRet # ErrClosed

RECURSIVE SumLens(_, _)
\* The sum of the payload lengths of the first k accepted requests.
SumLens(reqs, k) ==
    IF k = 0 THEN 0 ELSE SumLens(reqs, k - 1) + reqs[k].len

\* C9 (cursor advance): the k-th accepted WriteAndSync call is tagged with the
\* sum of the payload lengths of the calls accepted before it, and its epoch
\* offset is strictly greater than that of every earlier round.
C9_CursorAdvance ==
    \A k \in 1..Len(accepted) :
        /\ accepted[k].offset = SumLens(accepted, k - 1)
        /\ \A j \in 1..(k - 1) : accepted[j].offset < accepted[k].offset

\* Sequence s is an initial segment of sequence t.
IsPrefix(s, t) ==
    Len(s) <= Len(t) /\ s = SubSeq(t, 1, Len(s))

\* C10 (per-replica FIFO): the requests a worker has issued through AppendSync
\* are, in order, the first requests submitted to it, which are the first
\* requests the serialized calls were assigned, whatever the other workers do.
C10_PerReplicaFIFO ==
    \A i \in Workers :
        /\ IsPrefix(issued[i], submitted[i])
        /\ IsPrefix(submitted[i], accepted)

\* One replica's worker has issued both requests while another's has issued
\* none of them.
C10_Witness ==
    \E i, j \in Workers :
        Len(issued[i]) = 2 /\ Len(issued[j]) = 0 /\ Len(submitted[j]) = 2

\* C11 (quorum error value): when a WriteAndSync call returns an error because
\* quorum became unreachable, the error is the one of the latest failure a
\* replica reported for the request of that same round.
C11_QuorumErrorValue ==
    [][(wsPc = "wait" /\ wsPc' = "idle" /\ lastRet' # Nil)
           => (roundErr # Nil /\ lastRet' = roundErr)]_vars

\* ------------------------------------------------------------- pool claims
\* The DataClient instances of address a on which Close has not been called.
OpenAt(a) == {id \in 1..nextId : connAddr[id] = a /\ ~connClosed[id]}

\* C12 (pool capacity): for every server address, the idle clients and the
\* clients held by callers number between 0 and poolSize together, and the
\* count of the sub-pool is never negative.
C12_PoolCapacity ==
    \A a \in Addrs :
        /\ Len(clients[a]) + Cardinality(HeldAt(a)) >= 0
        /\ Len(clients[a]) + Cardinality(HeldAt(a)) <= poolSize
        /\ count[a] >= 0

\* A sub-pool of size 2 is full with one idle and one held client after a
\* client of its address was discarded, while the pool is being closed.
C12_Witness ==
    \E a \in Addrs :
        /\ poolSize = 2
        /\ Len(clients[a]) = 1
        /\ Cardinality(HeldAt(a)) = 1
        /\ \E id \in 1..nextId : connAddr[id] = a /\ connClosed[id]
        /\ pclosed

\* Caller c returns from Acquire with a client in this step.
GetsClient(c) == cpc[c] \in {"acquire", "woken"} /\ cpc'[c] = "holding"

\* Caller c completes serverPool.release on an open sub-pool in this step.
ReleasesTo(c, a) == cpc[c] = "release" /\ cpc'[c] = "idle" /\ caddr[c] = a /\ ~spClosed[a]

\* A caller that has been woken from Wait competes for the mutex of its
\* sub-pool with another woken caller or with a caller entering sp.acquire.
Contention ==
    \E c, d \in PoolCallers :
        /\ c # d
        /\ cpc[c] = "woken"
        /\ cpc[d] \in {"acquire", "woken"}
        /\ caddr[c] = caddr[d]

ReturnedAfterClose(c) == c \in blockedAtClose /\ cpc[c] \notin {"waiting", "woken"}

C15_ReleaseAfterCloseCloses ==
    (pcl = "done" /\ \A c \in PoolCallers : cpc[c] = "idle") =>
        /\ \A id \in 1..nextId : connClosed[id]
        /\ \A a \in Addrs : clients[a] = <<>>

\* Caller c completes serverPool.releaseWithError in this step.
Discards(c) == cpc[c] = "releaseWithError" /\ cpc'[c] = "idle"

\* C16 (ReleaseWithError frees capacity): ReleaseWithError closes the client and
\* leaves count below poolSize; an Acquire that finds an open sub-pool with no
\* idle client and count below poolSize returns, without blocking, a client
\* that did not exist before; a client on which Close has been called is
\* neither on an idle stack nor held by a caller; and at most poolSize clients
\* of an address are open.
C16_ReleaseWithErrorFreesCapacity ==
    /\ [][\A c \in PoolCallers :
              Discards(c) => /\ connClosed'[cconn[c]]
                             /\ count'[caddr[c]] < poolSize]_vars
    /\ [][\A c \in PoolCallers :
              (/\ cpc[c] \in {"acquire", "woken"}
               /\ cpc'[c] # cpc[c]
               /\ ~spClosed[caddr[c]]
               /\ clients[caddr[c]] = <<>>
               /\ count[caddr[c]] < poolSize)
                  => /\ cpc'[c] = "holding"
                     /\ cconn'[c] = nextId'
                     /\ nextId' = nextId + 1
                     /\ \A d \in PoolCallers : cconn[d] # cconn'[c]]_vars
    /\ [](\A id \in 1..nextId :
              connClosed[id] =>
                  /\ \A a \in Addrs : id \notin Range(clients[a])
                  /\ \A c \in PoolCallers : cpc[c] = "holding" => cconn[c] # id)
    /\ [](\A a \in Addrs : Cardinality(OpenAt(a)) <= poolSize)

\* With pool size 2, the first client of an address was discarded and two
\* callers hold the second and the third, the third created in its place.
C16_Witness ==
    \E c, d \in PoolCallers :
        /\ poolSize = 2
        /\ cpc[c] = "holding" /\ cconn[c] = 2
        /\ cpc[d] = "holding" /\ cconn[d] = 3 /\ cret[d] = "created"
        /\ connClosed[1]
        /\ connAddr[1] = connAddr[3] /\ connAddr[2] = connAddr[3]
        /\ ~pclosed

\* C17 (LIFO reuse): an Acquire that finds idle clients on its sub-pool returns
\* the one released most recently among them and creates none; so Acquire,
\* Release, Acquire on one address returns the same instance.  The idle stack
\* holds exactly the idle clients, in the order of their release.
C17_LifoReuse ==
    /\ [][\A c \in PoolCallers :
              (/\ cpc[c] \in {"acquire", "woken"}
               /\ cpc'[c] # cpc[c]
               /\ ~spClosed[caddr[c]]
               /\ released[caddr[c]] # <<>>)
                  => /\ cpc'[c] = "holding"
                     /\ cconn'[c] = released[caddr[c]][Len(released[caddr[c]])]
                     /\ nextId' = nextId]_vars
    /\ [](\A a \in Addrs : clients[a] = released[a])

\* Only one client was ever created; it was released and a later Acquire
\* returned it again.
C17_Witness ==
    \E c \in PoolCallers :
        /\ nextId = 1
        /\ cpc[c] = "holding"
        /\ cconn[c] = 1
        /\ cret[c] = "reused"

\* A caller is inside serverPool.acquire.
InAcquire(c) == cpc[c] \in {"acquire", "waiting", "woken"}

\* C18 (closed is terminal): the pool stays closed; an Acquire called on a closed
\* pool returns nil without entering a sub-pool; once Close has returned no
\* client is created and every call still inside a sub-pool finds it closed; a
\* further Close changes nothing; an Acquire that races with Close returns a client
\* only from a sub-pool that is not closed yet, and a client a caller has been
\* given is never one that Close has been called on.
C18_PoolClosedTerminal ==
    /\ [][pclosed => pclosed']_vars
    /\ [][pclosed =>
              \A c \in PoolCallers :
                  cpc[c] = "idle" => (cpc'[c] = "idle" /\ cret'[c] \in {cret[c], Nil})]_vars
    /\ [][pcl = "done" => (pcl' = "done" /\ nextId' = nextId)]_vars
    /\ [](pcl = "done" => \A c \in PoolCallers : InAcquire(c) => spClosed[caddr[c]])
    /\ [][pExtraCloses' # pExtraCloses =>
              UNCHANGED <<poolSize, pclosed, pools, serverPoolVars, poolCallerVars, connVars,
                          pcl, toClose>>]_vars
    /\ [][\A c \in PoolCallers : GetsClient(c) => ~spClosed[caddr[c]]]_vars
    /\ [](\A c \in PoolCallers : cpc[c] = "holding" => ~connClosed[cconn[c]])

\* After Close returned, an Acquire call was refused with nil and a second
\* Close call returned, while a client handed out before Close is still held.
C18_Witness ==
    /\ pcl = "done"
    /\ refused
    /\ pExtraCloses >= 1
    /\ \E c \in PoolCallers : cpc[c] = "holding"
    /\ \E c \in PoolCallers : cpc[c] = "idle" /\ cret[c] = Nil

\* C19 (exclusive ownership): no client is held by two callers, no client is
\* on an idle stack while a caller holds it, and no client is on idle stacks
\* twice.
C19_ExclusiveOwnership ==
    /\ \A c, d \in PoolCallers :
           (c # d /\ Holds(c) /\ Holds(d)) => cconn[c] # cconn[d]
    /\ \A c \in PoolCallers, a \in Addrs :
           Holds(c) => cconn[c] \notin Range(clients[a])
    /\ \A a \in Addrs : Cardinality(Range(clients[a])) = Len(clients[a])

\* Two callers hold the two clients of one address, one of them reused after a
\* release, while a third caller is blocked on that address.
C19_Witness ==
    \E c, d, e \in PoolCallers :
        /\ cpc[c] = "holding" /\ cret[c] = "reused"
        /\ cpc[d] = "holding"
        /\ c # d
        /\ connAddr[cconn[c]] = connAddr[cconn[d]]
        /\ cpc[e] = "waiting"
        /\ caddr[e] = connAddr[cconn[c]]

\* C20 (per-server independence): a caller holds only clients of the address
\* it asked for; the idle stack, the count and the waiters of an address change
\* only in a step of a caller operating on that address or of Close; a caller
\* starts waiting on an address only when that address has no idle client and
\* its own count has reached poolSize.
C20_PerServerIndependence ==
    /\ [](\A c \in PoolCallers : cpc[c] = "holding" => connAddr[cconn[c]] = caddr[c])
    /\ [](\A a \in Addrs : \A k \in 1..Len(clients[a]) : connAddr[clients[a][k]] = a)
    /\ [][\A b \in Addrs :
              (clients'[b] # clients[b] \/ count'[b] # count[b] \/ waiters'[b] # waiters[b])
                  => \/ spClosed'[b] # spClosed[b]
                     \/ \E c \in PoolCallers : cpc'[c] # cpc[c] /\ caddr[c] = b]_vars
    /\ [][\A c \in PoolCallers :
              (cpc[c] # "waiting" /\ cpc'[c] = "waiting")
                  => /\ clients[caddr[c]] = <<>>
                     /\ count[caddr[c]] >= poolSize]_vars

\* With pool size 1, one address is exhausted (its client held, a caller
\* blocked on it) and a client of the other address, created later, is held.
C20_Witness ==
    \E c, d, e \in PoolCallers :
        /\ poolSize = 1
        /\ cpc[c] = "holding" /\ cconn[c] = 1
        /\ cpc[d] = "waiting" /\ caddr[d] = connAddr[1]
        /\ cpc[e] = "holding" /\ cconn[e] = 2
        /\ connAddr[2] # connAddr[1]


\* C21 (transport-error invalidation): whenever the latest request returned a
\* transport error, the connection it used is closed and the client's conn is
\* nil, and the request was written at most once (no retry); and the next
\* request after such a failure either fails to connect or runs on a
\* connection dialed for it, one the client never used before.
C21_TransportErrorInvalidates ==
    /\ [](call.err \in TransportErrors
              => /\ conn = NoConn
                 /\ call.via \notin open
                 /\ call.writes <= 1)
    /\ [][(call.err \in TransportErrors /\ call' # call)
              => \/ call'.via = NoConn /\ call'.err = ErrConnecting /\ dialed' = dialed
                 \/ /\ dialed' = dialed + 1
                    /\ call'.via = dialed'
                    /\ call'.via \notin 1..dialed
                    /\ r' = call'.via]_vars

\* A request on the client's second connection received its buffer's worth of
\* payload and failed while discarding the rest: the connection is gone.
C21_Witness ==
    /\ call.err = ErrDiscardingExtra
    /\ call.n > 0
    /\ call.via = 2
    /\ conn = NoConn
    /\ open = {}


\* The latest request was written and a response header with the magic came back.
Answered ==
    /\ call.via # NoConn
    /\ call.err \notin {ErrWritingRequest, ErrReadingHeader, ErrInvalidMagic}

\* C22 (partial-read clamp): a Read into a buffer of B bytes that is answered
\* OK with L announced payload bytes, all of which arrive, returns no error;
\* and such a Read that returns no error reports min(L, B) bytes, has the
\* first min(L, B) payload bytes in its buffer, and has taken all L payload
\* bytes from the stream (min(L, B) read, the others discarded).
C22_PartialReadClamp ==
    (Answered /\ call.op = OpRead /\ call.status = StatusOK)
        => /\ Len(call.sent) = call.respLen => call.err = Nil
           /\ call.err = Nil
                  => /\ call.n = Min(call.respLen, call.dstLen)
                     /\ SubSeq(call.dst, 1, call.n) = SubSeq(ServerData(call.respLen), 1, call.n)
                     /\ Len(call.sent) - Len(call.rest) = call.respLen


\* The named error of each non-OK status of the vocabulary, as the protocol
\* documents it.
NamedError ==
    [s \in {StatusNotFound, StatusAlreadyExists, StatusSealed, StatusIOError,
            StatusInvalidOp, StatusBadRequest} |->
        CASE s = StatusNotFound -> "ErrNotFound"
          [] s = StatusAlreadyExists -> "ErrAlreadyExists"
          [] s = StatusSealed -> "ErrSealed"
          [] s = StatusIOError -> "ErrIOError"
          [] s = StatusInvalidOp -> "ErrInvalidOp"
          [] s = StatusBadRequest -> "ErrBadRequest"]

\* C23 (status errors): a request whose response header arrived with a non-OK
\* status and whose payload was transferred without a transport error returns
\* the named error of that status (some non-nil error for a status outside the
\* vocabulary) and keeps the connection; and a request returns a nil error only
\* if it was sent and answered with status OK.
C23_StatusErrors ==
    /\ (Answered /\ call.status # StatusOK /\ call.err \notin TransportErrors)
           => /\ call.err # Nil
              /\ call.status \in DOMAIN NamedError => call.err = NamedError[call.status]
              /\ call.n = 0
              /\ conn = call.via \/ conn = NoConn
    /\ (call # NoCall /\ call.err = Nil) => (Answered /\ call.status = StatusOK)

\* A Read answered NotFound with a payload longer than the buffer: the payload
\* was read and discarded in full, and the call returned ErrNotFound.
C23_Witness ==
    /\ Answered
    /\ call.op = OpRead
    /\ call.status = StatusNotFound
    /\ call.respLen = 3
    /\ call.dstLen = 2
    /\ Len(call.sent) = 3
    /\ call.rest = <<>>
    /\ call.err = ErrNotFound
    /\ conn = call.via


\* The bytes of a uint64 from the most significant one down, computed byte by
\* byte: byte i is (v / 256^(8-i)) mod 256.
BigEndianBytes(v) ==
    <<v[1] \div 256, v[1] % 256, v[2] \div 256, v[2] % 256,
      v[3] \div 256, v[3] % 256, v[4] \div 256, v[4] % 256>>

\* C24 (header round-trip): the encoding of a request header has 34 bytes, the
\* one of a response header 10, both start with the magic 0xBA and carry
\* offset and length big-endian; and decoding the encoding of a header
\* succeeds and yields that header.
C24_HeaderRoundTrip ==
    /\ (wire.by = "Encode" /\ IsRequestHeader(hdrIn))
           => /\ Len(wire.bytes) = 34
              /\ wire.bytes[1] = 186
              /\ wire.bytes[2] = hdrIn.OpCode
              /\ SubSeq(wire.bytes, 3, 18) = hdrIn.ObjectID
              /\ SubSeq(wire.bytes, 19, 26) = BigEndianBytes(hdrIn.Offset)
              /\ SubSeq(wire.bytes, 27, 34) = BigEndianBytes(hdrIn.Length)
    /\ (wire.by = "Encode" /\ IsResponseHeader(hdrIn))
           => /\ Len(wire.bytes) = 10
              /\ wire.bytes[1] = 186
              /\ wire.bytes[2] = hdrIn.Status
              /\ SubSeq(wire.bytes, 3, 10) = BigEndianBytes(hdrIn.Length)
    /\ (wire.by = "Encode" /\ decoded.of \in {"request", "response"} /\ bufIn = wire.bytes)
           => /\ decoded.err = Nil
              /\ decoded.hdr = hdrIn

\* A request header with the largest offset and a length whose eight bytes
\* differ was encoded and decoded back; so was a response header.
C24_Witness ==
    /\ wire.by = "Encode"
    /\ bufIn = wire.bytes
    /\ decoded.err = Nil
    /\ decoded.of = "request"
    /\ decoded.hdr.OpCode = OpRead
    /\ decoded.hdr.Offset = <<65535, 65535, 65535, 65535>>
    /\ decoded.hdr.Length = <<258, 772, 1286, 1800>>
    /\ SubSeq(wire.bytes, 27, 34) = <<1, 2, 3, 4, 5, 6, 7, 8>>


\* C25 (malformed header rejection): DecodeRequestHeader of a buffer shorter
\* than 34 bytes or not starting with 0xBA, and DecodeResponseHeader of a
\* buffer shorter than 10 bytes or not starting with 0xBA, return an error and
\* the zero header, whatever the other bytes are.
C25_MalformedHeaderRejected ==
    /\ (decoded.of = "request" /\ (Len(bufIn) < 34 \/ bufIn[1] # 186))
           => /\ decoded.err # Nil
              /\ decoded.hdr = ZeroRequestHeader
    /\ (decoded.of = "response" /\ (Len(bufIn) < 10 \/ bufIn[1] # 186))
           => /\ decoded.err # Nil
              /\ decoded.hdr = ZeroResponseHeader

\* The encoding of a Read request with its first byte replaced by 0xFF, all
\* other bytes in place, was handed to DecodeRequestHeader and rejected.
C25_Witness ==
    /\ decoded.of = "request"
    /\ Len(bufIn) = 34
    /\ bufIn[1] = 255
    /\ bufIn[2] = OpRead
    /\ SubSeq(bufIn, 2, 34) = SubSeq(RequestHeaderEncode(hdrIn), 2, 34)
    /\ decoded.err = "invalid magic"
    /\ decoded.hdr = ZeroRequestHeader


\* C26 as stated (message framing): a message written in full by WriteRequest
\* or WriteResponse is the encoded header immediately followed by a payload of
\* exactly as many bytes as the header's length field says.
C26_MessageFraming ==
    /\ (wire.by = "WriteRequest" /\ wire.err = Nil)
           => /\ SubSeq(wire.bytes, 1, 34) = RequestHeaderEncode(hdrIn)
              /\ DecodeRequestHeader(wire.bytes).hdr.Length = Uint64Of(Len(wire.bytes) - 34)
    /\ (wire.by = "WriteResponse" /\ wire.err = Nil)
           => /\ Len(wire.bytes) >= 10
              /\ DecodeResponseHeader(wire.bytes).hdr.Status = hdrIn.Status
              /\ DecodeResponseHeader(wire.bytes).hdr.Length = Uint64Of(Len(wire.bytes) - 10)

\* C26, amended: a message written in full is the encoded header immediately
\* followed by the data handed to the call, all len(data) bytes of it and
\* nothing else.  WriteResponse builds the header itself, with len(data) as
\* its length; WriteRequest encodes the header it is given, so the payload has
\* as many bytes as the header's length field says exactly when the caller set
\* that field to len(data).
C26_FramingOfData ==
    /\ (wire.by = "WriteRequest" /\ wire.err = Nil)
           => /\ wire.bytes = RequestHeaderEncode(hdrIn) \o dataIn
              /\ (DecodeRequestHeader(wire.bytes).hdr.Length = Uint64Of(Len(wire.bytes) - 34))
                     <=> (hdrIn.Length = Uint64Of(Len(dataIn)))
    /\ (wire.by = "WriteResponse" /\ wire.err = Nil)
           => /\ SubSeq(wire.bytes, 11, Len(wire.bytes)) = dataIn
              /\ DecodeResponseHeader(wire.bytes).err = Nil
              /\ DecodeResponseHeader(wire.bytes).hdr.Status = hdrIn.Status
              /\ DecodeResponseHeader(wire.bytes).hdr.Length = Uint64Of(Len(dataIn))

\* WriteRequest wrote a Read request that asks for 2 bytes and carries no
\* payload: 34 bytes in all.
C26_Witness ==
    /\ wire.by = "WriteRequest"
    /\ wire.err = Nil
    /\ hdrIn.OpCode = OpRead
    /\ hdrIn.Length = Uint64Of(2)
    /\ dataIn = <<>>
    /\ Len(wire.bytes) = 34


\* C27 (status-to-error mapping): StatusCode.Error answers nil for StatusOK,
\* the status's own named error for each of the six non-OK statuses, and a
\* non-nil error for every other byte; no two of the six share an error.
C27_StatusToError ==
    /\ decoded.of = "status"
           => /\ hdrIn.Status = StatusOK => decoded.err = Nil
              /\ hdrIn.Status \in DOMAIN NamedError => decoded.err = NamedError[hdrIn.Status]
              /\ hdrIn.Status # StatusOK => decoded.err # Nil
    /\ \A s, t \in DOMAIN NamedError :
           s # t => /\ StatusError(s) # StatusError(t)
                    /\ StatusError(s) # Nil

\* Error() was applied to StatusInvalidOp and answered ErrInvalidOp.
C27_Witness ==
    /\ decoded.of = "status"
    /\ hdrIn.Status = StatusInvalidOp
    /\ decoded.err = "ErrInvalidOp"


\* C28 (pool size configuration): the limit of a pool built without the size
\* option, or with a size of zero or below, is 8 connections per server, and
\* the limit of a pool built with a positive size s is s: that many clients
\* of one server can be out or idle at once, never more, and an Acquire goes
\* to wait only when the server's count of clients stands at the limit.
C28_PoolSizeConfiguration ==
    /\ [](poolSize = IF sizeOpts = <<>> \/ sizeOpts[1] <= 0 THEN 8 ELSE sizeOpts[1])
    /\ [](\A a \in Addrs : Len(clients[a]) + Cardinality(HeldAt(a)) <= poolSize)
    /\ [][\A c \in PoolCallers :
              (cpc[c] = "acquire" /\ cpc'[c] = "waiting")
                  => count[caddr[c]] = poolSize]_vars

\* A pool built with WithPoolSize(0) has three clients of one server out at
\* once: more than any positive size of the model allows.
C28_Witness ==
    /\ sizeOpts = <<0>>
    /\ poolSize = 8
    /\ \A c \in PoolCallers : cpc[c] = "holding" /\ connAddr[cconn[c]] = 1
    /\ Cardinality({cconn[c] : c \in PoolCallers}) = 3


\* C29 (no accepted write is dropped): provided every replica answers, the
\* request of every WriteAndSync call that prepareWrite accepted is eventually
\* issued via AppendSync on every replica, whatever Close does meanwhile.
C29_NoAcceptedWriteDropped ==
    ResponsiveReplicas
        => \A k \in 1..MaxWritesClosing : \A i \in 1..MaxReplicas :
               (i \in Workers /\ Len(accepted) >= k)
                   ~> (i \in Workers /\ Len(accepted) >= k /\ accepted[k] \in Range(issued[i]))

\* C30 (WriteAndSync termination): provided every replica answers, every
\* WriteAndSync call in progress eventually returns, whatever Close does
\* meanwhile.
C30_WriteAndSyncTerminates ==
    ResponsiveReplicas => ((wsPc # "idle") ~> (wsPc = "idle"))


\* C31 (counter bound): under serialized WriteAndSync calls with payloads of
\* any length, the results counted never outnumber the replicas: each replica
\* adds at most one result to the counters of a round, so
\* successCount + failureCount <= N in every reachable state.
C31_CounterBound ==
    successCount + failureCount <= n


\* C32 (empty replica set): a QuorumWriter constructed with an empty replica
\* list (N = 0, quorum = 1) never returns nil from WriteAndSync, since no
\* replica can acknowledge the write.
C32_EmptyReplicaSet ==
    n = 0 => lastRet # Nil


\* Worker i is in its run loop: its dequeue has not yet returned false.
InRunLoop(i) == wpc[i] \in {"dequeue", "appendSync"}

\* C33 (no retry, no skip): a worker issues the requests of its queue to
\* AppendSync one by one in queue order, each once, so what it has issued and
\* what is still queued make up exactly what was enqueued; every AppendSync
\* is followed by one reportResult for that request, after which the worker,
\* whether the AppendSync failed or not, is back at its queue with the queue
\* as it was; it leaves its loop only from there, never because of a failure,
\* and has then issued every request enqueued while it was in the loop.
C33_NoRetryNoSkip ==
    /\ [](\A i \in Workers :
             /\ issued[i] \o queue[i] = submitted[i]
             /\ wpc[i] = "appendSync" <=> cur[i] # NoReq
             /\ wpc[i] = "appendSync" => cur[i] = issued[i][Len(issued[i])]
             /\ \A j, k \in 1..Len(issued[i]) : issued[i][j] = issued[i][k] => j = k)
    /\ [][\A i \in Workers :
             /\ issued'[i] # issued[i]
                    => /\ wpc[i] = "dequeue" /\ wpc'[i] = "appendSync"
                       /\ issued'[i] = Append(issued[i], queue[i][1])
                       /\ queue'[i] = Tail(queue[i])
             /\ (wpc[i] = "appendSync" /\ wpc'[i] # "appendSync")
                    => /\ \E err \in AppendErrors \cup {Nil} : ReportResult(i, err)
                       /\ wpc'[i] = "dequeue"
                       /\ UNCHANGED <<queue, issued, wclosed>>
             /\ (InRunLoop(i) /\ ~InRunLoop(i)')
                    => /\ wpc[i] = "dequeue"
                       /\ issued[i] = submitted[i]]_vars

\* The only replica failed the AppendSync of the first call's request, the
\* call returned that error, and the worker has gone on to issue the request
\* of the second call.
C33_Witness ==
    /\ n = 1
    /\ lastRet \in AppendErrors
    /\ Len(issued[1]) = 2
    /\ wpc[1] = "appendSync"


\* C34 (dedicated-connection exclusivity): on the connection of each replica
\* an AppendSync begins only while none is in progress and the connection has
\* not been closed; the connection is closed only by the step of its own
\* worker that follows the loop, with no AppendSync in progress, and no
\* AppendSync is issued on it afterwards; no step of a WriteAndSync or Close
\* call changes the state of a connection or of the AppendSync in progress.
C34_DedicatedConnection ==
    /\ [](\A i \in Workers :
             /\ wpc[i] = "appendSync" => ~clientClosed[i]
             /\ clientClosed[i] => wpc[i] \in {"markExit", "exited"} /\ cur[i] = NoReq)
    /\ [][\A i \in Workers :
             /\ issued'[i] # issued[i]
                    => wpc[i] # "appendSync" /\ cur[i] = NoReq /\ ~clientClosed[i]
             /\ clientClosed'[i] # clientClosed[i]
                    => /\ WorkerClientClose(i)
                       /\ ~InRunLoop(i)
                       /\ cur[i] = NoReq
             /\ clientClosed[i] => clientClosed'[i] /\ issued'[i] = issued[i]]_vars
    /\ [][(callerVars' # callerVars \/ closerVars' # closerVars)
             => UNCHANGED <<clientClosed, cur, issued>>]_vars

\* A worker has made the AppendSync calls of two requests and then closed its
\* connection, while Close is still signalling or waiting.
C34_Witness ==
    \E i \in Workers :
        clientClosed[i] /\ Len(issued[i]) = 2 /\ clPc \in {"signal", "waitExit"}


\* The callers parked in sp.cond.Wait of address a, and those blocked in
\* Acquire for it (parked, or signalled and not yet running again).
ParkedAt(a) == {c \in PoolCallers : cpc[c] = "waiting" /\ caddr[c] = a}
BlockedAt(a) == {c \in PoolCallers : cpc[c] \in {"waiting", "woken"} /\ caddr[c] = a}

\* An Acquire for address a that runs now gets a client: one is idle, or the
\* live count is below poolSize.
Available(a) == clients[a] # <<>> \/ count[a] < poolSize

\* Every caller that holds a client eventually calls Release or
\* ReleaseWithError on it.
HoldersRelease ==
    \A c \in PoolCallers : WF_vars(Release(c) \/ ReleaseWithError(c))

\* A caller blocked in Acquire returns from it with a client in this step.
BlockedAcquireReturns ==
    \E c \in PoolCallers : cpc[c] = "woken" /\ cpc'[c] = "holding"

\* While the pool is open, whenever callers are parked on an address whose
\* sub-pool has a client to give, one caller of that address has been
\* signalled and is about to run.
NoLostWakeup ==
    \A a \in Addrs :
        (~pclosed /\ ParkedAt(a) # {} /\ Available(a))
            => \E d \in PoolCallers : cpc[d] = "woken" /\ caddr[d] = a

\* C35, as claimed (no lost wakeups): on an open pool no Acquire stays parked
\* while its sub-pool has a client to give and nobody has been signalled; and
\* if every holder eventually releases its client, then under any interleaving
\* of the callers some blocked Acquire always eventually returns with a client:
\* blocked Acquires return again and again, unless from some point on no
\* Acquire is blocked.
C35_NoLostWakeups ==
    /\ []NoLostWakeup
    /\ ([]~pclosed /\ [](nextId < MaxConns) /\ HoldersRelease)
           => \/ []<><<BlockedAcquireReturns>>_vars
              \/ <>[](BlockedAt(1) = {})


\* C36 (response framing): every request that returns without a transport
\* error, whatever the status, the announced length and the size of the
\* destination buffer, has taken from the stream the header and exactly the
\* announced number of payload bytes, and leaves the client on the connection
\* it used, still open: the next response starts at a header boundary.
C36_ResponseFraming ==
    /\ []((Answered /\ call.err \notin TransportErrors)
              => Len(call.sent) - Len(call.rest) = call.respLen)
    /\ [][(call' # call /\ Answered' /\ call'.err \notin TransportErrors)
              => /\ conn' = call'.via
                 /\ call'.via \in open'
                 /\ call'.rest = <<>>]_vars


\* C37 (outcome arithmetic): for every N >= 1 with quorum q = floor(N/2)+1 and
\* all counts s, f >= 0 with s + f <= N, the success condition s >= q and the
\* failure condition f > N - q are never both true, and with s + f = N exactly
\* one of them is true.  In the writer: the quorum is floor(N/2)+1, the caller
\* waits exactly while neither condition holds, and whenever the counters of
\* a round add up to at most N the two outcomes exclude each other, and with
\* all N results counted the caller does not wait.
C37_OutcomeArithmetic ==
    /\ \A N \in 1..MaxOutcomeN : \A s, f \in 0..N :
           s + f <= N
               => LET q == MajorityQuorum(N)
                  IN  /\ ~(SuccessCondition(s, q) /\ FailureCondition(f, N, q))
                      /\ s + f = N => (SuccessCondition(s, q) \/ FailureCondition(f, N, q))
    /\ quorum = MajorityQuorum(n)
    /\ MustWait(n) <=> /\ ~SuccessCondition(successCount, quorum)
                       /\ ~FailureCondition(failureCount, n, quorum)
    /\ successCount + failureCount <= n
           => /\ ~(SuccessCondition(successCount, quorum) /\ FailureCondition(failureCount, n, quorum))
              /\ successCount + failureCount = n => ~MustWait(n)

\* All three replicas have reported in one round, one success and two
\* failures, and the caller is about to leave waitForQuorum with the error.
C37_Witness ==
    /\ n = 3
    /\ wsPc = "wait"
    /\ successCount = 1
    /\ failureCount = 2
    /\ okBy \cup failBy = Workers


\* C38 (DataClient lifecycle): a client that has not dialed has no connection;
\* a connection is established only by a request on an unconnected client,
\* which either fails to connect or runs on a connection dialed for it; a
\* Close leaves the client unconnected with the connection it had closed; a
\* Close of an unconnected client (never connected, or closed before) returns
\* nil and changes nothing; the next request then connects again.
C38_DataClientLifecycle ==
    /\ [](dialed = 0 => conn = NoConn /\ r = NoConn /\ open = {})
    /\ [](conn # NoConn => conn \in open /\ r = conn)
    /\ [][dialed' # dialed
              => /\ conn = NoConn
                 /\ closeErr' = NoRet
                 /\ dialed' = dialed + 1
                 /\ call'.via = dialed']_vars
    /\ [][(conn = NoConn /\ closeErr' = NoRet)
              => \/ call'.err = ErrConnecting /\ call'.via = NoConn /\ UNCHANGED <<conn, dialed, open>>
                 \/ dialed' = dialed + 1 /\ call'.via = dialed' /\ call'.via \notin open]_vars
    /\ [][closeErr' # NoRet
              => /\ conn' = NoConn
                 /\ UNCHANGED <<dialed, call>>
                 /\ conn # NoConn => conn \notin open' /\ r' = NoConn
                 /\ conn = NoConn => closeErr' = Nil /\ UNCHANGED <<r, open>>]_vars

\* The client's second connection served a request and the Close that
\* followed returned nil: the client is unconnected again.
C38_Witness ==
    /\ dialed = 2
    /\ call.via = 2 /\ call.err = Nil
    /\ closeErr = Nil
    /\ conn = NoConn /\ r = NoConn /\ open = {}

====
